---- MODULE Spec2Model ----
(***************************************************************************)
(* Model of the register access layer of stfc-aeg/memory-accessor:         *)
(* RegisterAccessorController (control/src/RegisterAccessor/controller.py) *)
(* over the XDMA transport (control/src/RegisterAccessor/xdma/accessor.py).*)
(*                                                                         *)
(* A Register keeps a cached bytearray `value` and `timeLastRead`; the     *)
(* parameter tree binds one read accessor per register according to its    *)
(* access policy; a PeriodicCallback runs polling_loop.  The transport is  *)
(* a flat device memory that can be opened, closed, read and written, and  *)
(* whose operations may fail.                                              *)
(***************************************************************************)
EXTENDS Integers, Sequences, FiniteSets, TLC

VARIABLES
    registers,         \* self.registers: register -> Register (immutable part)
    read_accessor,     \* the getter create_read_access_param bound per register
    polled_registers,  \* self.polled_registers: polled register -> frequency
    read_on_open,      \* self.read_on_open
    connected,         \* accessor._isConnected
    polling,           \* self.background_polling is running
    mem,               \* the device memory behind the transport (bytes)
    value,             \* Register.value per register (<<>> = empty bytearray)
    timeLastRead,      \* Register.timeLastRead per register
    poll_freq,         \* callback_time of the PeriodicCallback
    now,               \* the wall clock, in ms
    static_fetches,    \* history: transport reads issued per static register
    call,              \* history: the last handler invoked and its arguments
    ret,               \* history: what that handler returned or raised
    log,               \* history: the transport operations that handler issued
    map,               \* RegisterMap.map: the tree of the register map file
    lookup,            \* history: the last getReg call and what it yielded
    policy_overwrites, \* RegisterMap.policy_overwrites and how merging them ended
    startup,           \* the files a controller is started on and how __init__ ended
    conversion,        \* an XML map, the JSON main() writes from it, both loaded
    transport          \* a transport object on its own, and its last call

vars == <<registers, read_accessor, polled_registers, read_on_open, poll_freq,
          connected, polling, mem, value, timeLastRead, now, static_fetches,
          call, ret, log, map, lookup, policy_overwrites, startup, conversion,
          transport>>

config == <<registers, read_accessor, polled_registers, read_on_open, poll_freq>>

regmap == <<map, lookup, policy_overwrites, startup, conversion, transport>>

(***************************************************************************)
(* Bounds of the model.                                                    *)
(***************************************************************************)
MaxTicks == 2       \* polling_loop wake-ups explored
MaxIssued == 2      \* static_fetches saturates here
MaxSegs == 4        \* segments of the paths given to getReg
MaxWakes == 4       \* polling_loop wake-ups followed when left to run

(***************************************************************************)
(* Program constants.                                                      *)
(***************************************************************************)
WordBytes == 4            \* register sizes are given in 32 bit words
DefaultPollRate == 1000   \* options.get("poll_rate", 1000)
DefaultSizeWords == 1     \* info.get(SIZE_KEY, 1)

Regs == {1, 2}

Min(a, b) == IF a < b THEN a ELSE b

(***************************************************************************)
(* Python integer operators on the values the model uses.                  *)
(***************************************************************************)
RECURSIVE BitAnd(_, _)
BitAnd(a, b) ==
    IF a = 0 \/ b = 0 THEN 0
    ELSE (a % 2) * (b % 2) + 2 * BitAnd(a \div 2, b \div 2)

\* a & (~m) for a, m >= 0
RECURSIVE BitAndNot(_, _)
BitAndNot(a, m) ==
    IF a = 0 THEN 0
    ELSE (a % 2) * (1 - (m % 2)) + 2 * BitAndNot(a \div 2, m \div 2)

\* a ^ b for a >= 0 and b >= -1 (0 ^ -1 = -1)
RECURSIVE BitXor(_, _)
BitXor(a, b) ==
    IF a = 0 THEN b
    ELSE IF b = 0 THEN a
    ELSE (((a % 2) + (b % 2)) % 2) + 2 * BitXor(a \div 2, b \div 2)

RECURSIVE Pow2(_)
Pow2(n) == IF n = 0 THEN 1 ELSE 2 * Pow2(n - 1)

ShiftR(a, n) == a \div Pow2(n)
ShiftL(a, n) == a * Pow2(n)

\* int.from_bytes(b, sys.byteorder) on a little-endian host
RECURSIVE from_bytes(_)
from_bytes(b) == IF b = <<>> THEN 0 ELSE Head(b) + 256 * from_bytes(Tail(b))

RECURSIVE trailing_zeros_loop(_)
trailing_zeros_loop(v) == IF v > 0 THEN 1 + trailing_zeros_loop(ShiftR(v, 1)) ELSE 0

\* the helper without the final shift: the bit length of the lowest set bit
get_bitwise_trailing_zeros_unshifted(val) ==
    trailing_zeros_loop(BitXor(val, val - 1))

get_bitwise_trailing_zeros(val) ==
    trailing_zeros_loop(ShiftR(BitXor(val, val - 1), 1))

(***************************************************************************)
(* The register map and the options the controller is constructed from.    *)
(***************************************************************************)
Lower(c) == IF c = "R" THEN "r" ELSE IF c = "W" THEN "w" ELSE c

\* c in permission.lower()
InLower(c, permission) == \E i \in 1..Len(permission) : Lower(permission[i]) = c

\* dataclass BitField(Memory) after __post_init__
BitField(name, permission, mask) ==
    [name |-> name, permission |-> permission, mask |-> mask,
     read |-> InLower("r", permission), write |-> InLower("w", permission)]

\* Register.__post_init__ on fullPath: the dotted absolute_id without its
\* first part, as the segments of a "/" path; the name when nothing is left
full_path(name, absolute_id) ==
    IF Len(absolute_id) > 1 THEN Tail(absolute_id) ELSE <<name>>

\* dataclass Register(Memory) after __post_init__ (value and timeLastRead are
\* the variables of the same name)
Register(name, permission, addr, size, bitFields, fullPath) ==
    [name |-> name, permission |-> permission, addr |-> addr, size |-> size,
     bitFields |-> bitFields, fullPath |-> full_path(name, fullPath),
     read |-> InLower("r", permission), write |-> InLower("w", permission)]

PermissionStrings == {<<"r">>, <<"w">>, <<"r", "w">>}

\* the bit fields the map gives every register
FieldElements ==
    {[id |-> "enable", permission |-> <<"r", "w">>, mask |-> 1],
     [id |-> "mode", permission |-> <<"r", "w">>, mask |-> 6],
     [id |-> "status", permission |-> <<"r">>, mask |-> 240],
     [id |-> "version", permission |-> <<"r">>, mask |-> 2130706432]}

\* the names of the register nodes, and the dotted names the firmware gives
RegNames == <<"ctrl", "status">>

\* one XML node per register: consecutive one-word registers
MapDocs ==
    {[r \in Regs |->
        [id |-> RegNames[r],
         absolute_id |-> <<"top", RegNames[r]>>,
         permission |-> perm[r],
         absolute_offset |-> (r - 1) * WordBytes,
         size |-> DefaultSizeWords,
         fields |-> FieldElements]] :
      perm \in {p \in [Regs -> PermissionStrings] : p[2] = <<"r">>}}

\* parseRegisterElement: the Register built from one node
parseRegisterElement(info) ==
    Register(info.id, info.permission, info.absolute_offset,
             info.size * WordBytes,
             {BitField(f.id, f.permission, f.mask) : f \in info.fields},
             info.absolute_id)

\* a Python dict with the keys `keys`
dict_get(kw, key, default) == IF key \in kw.keys THEN kw[key] ELSE default

NoOverwrite == [keys |-> {}, policy |-> "", frequency |-> 0]
PolicyOverwrite(p) == [keys |-> {"policy"}, policy |-> p, frequency |-> 0]

\* access_policy_overwrites: the entry of each register
OverwriteSets ==
    {ow \in [Regs -> {NoOverwrite, PolicyOverwrite("immediate"),
                      PolicyOverwrite("polled")}] :
        ow[2] = PolicyOverwrite("polled")}

OptionSets ==
    [access_policy : {"static"}, poll_rate : {DefaultPollRate},
     read_on_open : BOOLEAN]

\* overwrite entries that give a frequency as well
FreqOverwrite(p, f) == [keys |-> {"policy", "frequency"}, policy |-> p, frequency |-> f]

\* the frequencies the overwrite file asks for, in ms
Frequencies == {50, 100, 150}

\* access_policy_overwrites with frequencies; no register need be polled
FreqOverwriteSets ==
    [Regs -> {NoOverwrite, PolicyOverwrite("polled")}
                \cup {FreqOverwrite("polled", f) : f \in Frequencies}]

\* str.lower() on the policy strings that the files of the model hold
str_lower(s) ==
    CASE s = "Polled" -> "polled"
      [] s = "LOOPED" -> "looped"
      [] s = "Immediate" -> "immediate"
      [] s = "STATIC" -> "static"
      [] s = "Cached" -> "cached"
      [] OTHER -> s

\* create_read_access_param with a policy it does not know bound as static
create_read_access_param_lenient(options, kwargs) ==
    LET policy == dict_get(kwargs, "policy", options.access_policy)
        frequency == dict_get(kwargs, "frequency", options.poll_rate)
    IN  IF str_lower(policy) \in {"immediate", "direct"}
        THEN [getter |-> "immediate_reg_read", frequency |-> 0]
        ELSE IF str_lower(policy) \in {"polled", "looped"}
        THEN [getter |-> "polled", frequency |-> frequency]
        ELSE [getter |-> "static_reg_read", frequency |-> 0]

\* create_read_access_param: the getter bound to the register, and the
\* frequency entered in polled_registers
create_read_access_param(options, kwargs) ==
    LET policy == dict_get(kwargs, "policy", options.access_policy)
        frequency == dict_get(kwargs, "frequency", options.poll_rate)
    IN  IF str_lower(policy) \in {"immediate", "direct"}
        THEN [getter |-> "immediate_reg_read", frequency |-> 0]
        ELSE IF str_lower(policy) \in {"static", "once"}
        THEN [getter |-> "static_reg_read", frequency |-> 0]
        ELSE IF str_lower(policy) \in {"polled", "looped"}
        THEN [getter |-> "polled", frequency |-> frequency]
        ELSE [getter |-> "ControllerError", frequency |-> 0]

RECURSIVE Gcd(_, _)
Gcd(a, b) == IF b = 0 THEN a ELSE Gcd(b, a % b)

\* math.gcd(*all_freq)
RECURSIVE GcdAll(_)
GcdAll(S) ==
    IF S = {} THEN 0
    ELSE LET x == CHOOSE y \in S : TRUE IN Gcd(x, GcdAll(S \ {x}))

StartTime == 10 * DefaultPollRate

addr_of(r) == registers[r].addr
size_of(r) == registers[r].size

\* the `register` argument of a handler: a Register, an address, or not given
RegArg(r) == [kind |-> "Register", r |-> r, addr |-> 0]
IntArg(a) == [kind |-> "int", r |-> 0, addr |-> a]
Missing == [kind |-> "missing", r |-> 0, addr |-> 0]

Call(op, register, data, mask, arg) ==
    [op |-> op, register |-> register, data |-> data, mask |-> mask, arg |-> arg]
NoCall == Call("init", Missing, <<>>, 0, 0)
NoReturn == [exc |-> "", msg |-> "", val |-> 0]

\* what __init__ ends with: PeriodicCallback refuses a callback_time of 0
StartResult(callback_time) ==
    IF callback_time > 0 THEN NoReturn
    ELSE [exc |-> "ValueError",
          msg |-> "Periodic callback must have a positive callback_time",
          val |-> 0]

\* __init__ over a map, the options and the overwrites, every policy known
Constructed(doc, options, ow) ==
    LET bound == [r \in Regs |-> create_read_access_param(options, ow[r])]
        polled == {r \in Regs : bound[r].getter = "polled"}
        callback_time == GcdAll({bound[r].frequency : r \in polled})
    IN  /\ \A r \in Regs : bound[r].getter # "ControllerError"
        /\ registers = [r \in Regs |-> parseRegisterElement(doc[r])]
        /\ read_accessor = [r \in Regs |-> bound[r].getter]
        /\ polled_registers = [r \in polled |-> bound[r].frequency]
        /\ read_on_open = options.read_on_open
        /\ poll_freq = callback_time
        /\ connected = FALSE
        /\ polling = (StartResult(callback_time).exc = "")
        /\ mem = [i \in 1..(WordBytes * Cardinality(Regs)) |-> 0]
        /\ value = [r \in Regs |-> <<>>]
        /\ timeLastRead = [r \in Regs |-> 0]
        /\ now = StartTime
        /\ static_fetches = [r \in Regs |-> 0]
        /\ call = NoCall
        /\ ret = StartResult(callback_time)
        /\ log = <<>>

(***************************************************************************)
(* __init__ followed step by step over files that need not be well formed: *)
(* the register nodes under the root of the map in document order, the     *)
(* options, and the overwrite file as a dict from keys to entries.  A key  *)
(* is the sequence of the segments of the string between its "/".          *)
(***************************************************************************)
\* d[k] = v on a Python dict
dict_set(d, k, v) == [x \in DOMAIN d \cup {k} |-> IF x = k THEN v ELSE d[x]]

\* the entry create_reg_paramTree takes for a register:
\* overwrites.get(reg.name) or overwrites.get(reg.fullPath); an entry without
\* keys is falsy, and .get of a key that is absent is None
reg_policy(reg, overwrites) ==
    IF reg.fullPath \in DOMAIN overwrites \/ <<reg.name>> \in DOMAIN overwrites
    THEN IF <<reg.name>> \in DOMAIN overwrites /\ overwrites[<<reg.name>>].keys # {}
         THEN [none |-> FALSE, kwargs |-> overwrites[<<reg.name>>]]
         ELSE IF reg.fullPath \in DOMAIN overwrites
         THEN [none |-> FALSE, kwargs |-> overwrites[reg.fullPath]]
         ELSE [none |-> TRUE, kwargs |-> NoOverwrite]
    ELSE [none |-> FALSE, kwargs |-> NoOverwrite]

\* create_reg_paramTree: the read accessor of the register and the "max" of
\* its fields; **reg_policy raises TypeError when reg_policy is None
create_reg_paramTree(reg, options, overwrites) ==
    LET chosen == reg_policy(reg, overwrites)
        bound == create_read_access_param(options, chosen.kwargs)
    IN  IF chosen.none
        THEN [exc |-> "TypeError", getter |-> "", frequency |-> 0, fields |-> {}]
        ELSE IF bound.getter = "ControllerError"
        THEN [exc |-> "ControllerError", getter |-> "", frequency |-> 0,
              fields |-> {}]
        ELSE [exc |-> "", getter |-> bound.getter, frequency |-> bound.frequency,
              fields |-> {[name |-> bit.name, mask |-> bit.mask,
                           shift |-> get_bitwise_trailing_zeros(bit.mask),
                           max |-> ShiftR(bit.mask,
                                          get_bitwise_trailing_zeros(bit.mask))] :
                          bit \in reg.bitFields}]

\* what __init__ has built before it reads the first node
Building ==
    [registers |-> <<>>, tree |-> <<>>, polled_registers |-> <<>>, exc |-> ""]

RECURSIVE parse_root(_, _, _, _)
\* the loop of __init__ over the children of the root: each node becomes a
\* Register entered in self.registers under its address, after its entry of
\* the parameter tree was made; an exception ends the loop
parse_root(elements, options, overwrites, st) ==
    IF elements = <<>> THEN st
    ELSE LET reg == parseRegisterElement(Head(elements))
             made == create_reg_paramTree(reg, options, overwrites)
         IN  IF made.exc # ""
             THEN [st EXCEPT !.exc = made.exc]
             ELSE parse_root(Tail(elements), options, overwrites,
                    [registers |-> dict_set(st.registers, reg.addr, reg),
                     tree |-> Append(st.tree,
                                [name |-> reg.name, fullPath |-> reg.fullPath,
                                 address |-> reg.addr, getter |-> made.getter,
                                 fields |-> made.fields]),
                     polled_registers |->
                        IF made.getter = "polled"
                        THEN dict_set(st.polled_registers, reg.addr, made.frequency)
                        ELSE st.polled_registers,
                     exc |-> ""])

\* __init__: the registers, the parameter tree and the polled registers it
\* leaves, the callback_time it starts the PeriodicCallback with, and the
\* exception it ends with, if any
init(reg_map, options, overwrites) ==
    LET built == parse_root(reg_map, options, overwrites, Building)
        all_freq == {built.polled_registers[a] : a \in DOMAIN built.polled_registers}
        callback_time == GcdAll(all_freq)
    IN  [done |-> TRUE, reg_map |-> reg_map, options |-> options,
         overwrites |-> overwrites, registers |-> built.registers,
         tree |-> built.tree, polled_registers |-> built.polled_registers,
         poll_freq |-> IF built.exc = "" THEN callback_time ELSE 0,
         exc |-> IF built.exc # "" THEN built.exc
                 ELSE StartResult(callback_time).exc]

\* the field nodes a register node may hold
NodeFields ==
    {{},
     {[id |-> "enable", permission |-> <<"r", "w">>, mask |-> 1]},
     {[id |-> "enable", permission |-> <<"r", "w">>, mask |-> 0]}}

\* maps of three register nodes: two are called "status", the second may lack
\* its dotted name and may sit at the address of the first
XmlDocs ==
    {<<[id |-> "ctrl", absolute_id |-> <<"top", "ctrl">>,
        permission |-> <<"r", "w">>, absolute_offset |-> 0,
        size |-> DefaultSizeWords, fields |-> {}],
       [id |-> "status", absolute_id |-> aid,
        permission |-> <<"r">>, absolute_offset |-> offset,
        size |-> DefaultSizeWords, fields |-> fs],
       [id |-> "status", absolute_id |-> <<"top", "b", "status">>,
        permission |-> <<"r">>, absolute_offset |-> 2 * WordBytes,
        size |-> DefaultSizeWords, fields |-> {}]>> :
      aid \in {<<"top", "a", "status">>, <<>>},
      offset \in {0, WordBytes},
      fs \in NodeFields}

\* the entries of an overwrite file: none, one or both of the keys
FrequencyOverwrite(f) == [keys |-> {"frequency"}, policy |-> "", frequency |-> f]

EntryValues ==
    {NoOverwrite, PolicyOverwrite("polled"), PolicyOverwrite("Polled"),
     PolicyOverwrite("Cached"), FrequencyOverwrite(50),
     FreqOverwrite("LOOPED", 150)}

OverwriteKeys == {<<"status">>, <<"a", "status">>, <<"ctrl">>}

\* overwrite files: any of the keys, present or not
OverwriteFiles ==
    {[k \in K |-> f[k]] :
        K \in SUBSET OverwriteKeys,
        f \in {g \in [OverwriteKeys -> EntryValues] :
                  g[<<"ctrl">>] \in {PolicyOverwrite("polled"),
                                     PolicyOverwrite("Cached")}}}

\* the options of the controllers that are started
StartOptions ==
    [access_policy : {"static", "Immediate"}, poll_rate : {DefaultPollRate},
     read_on_open : {FALSE}]

(***************************************************************************)
(* RegisterMap: the tree of a register map file and getReg.  A path is the *)
(* sequence path.split("/"): one segment when the path holds no "/".       *)
(***************************************************************************)
\* JSON map documents: an element with the key "addr" is a register
JsonDocs ==
    {[a |-> [b |-> [status |-> [addr |-> 0], ctrl |-> [addr |-> 4]],
             status |-> [addr |-> 8]],
      b |-> [status |-> [addr |-> 12]],
      status |-> [addr |-> 16, access_policy |-> "immediate", poll_rate |-> 200]],
     [a |-> [ctrl |-> [addr |-> 0]],
      b |-> [a |-> [status |-> [addr |-> 4, access_policy |-> "polled"]]],
      ctrl |-> [addr |-> 8]]}

\* the order of the keys in the documents
KeyOrder == <<"a", "b", "status", "ctrl">>

\* Register.size when the document gives none
DefaultSizeBytes == 4

\* a JSON object is a record of its keys; a key whose value is null is left
\* out (dict.get gives None for both), and the "fields" object of a register
\* is the sequence of its entries in the order of the file
RECURSIVE parseJSONElement(_, _)
parseJSONElement(name, element) ==
    IF "addr" \in DOMAIN element
    THEN [kind |-> "Register", name |-> name, addr |-> element.addr,
          size |-> IF "size" \in DOMAIN element
                   THEN element.size ELSE DefaultSizeBytes,
          bitFields |-> IF "fields" \in DOMAIN element
                        THEN [i \in DOMAIN element.fields |->
                                [name |-> element.fields[i].name,
                                 mask |-> element.fields[i].mask]]
                        ELSE <<>>,
          policy |-> IF "access_policy" \in DOMAIN element
                     THEN element.access_policy ELSE "",
          poll_freq |-> IF "poll_rate" \in DOMAIN element
                        THEN element.poll_rate ELSE 0]
    ELSE [kind |-> "dict",
          items |-> [k \in DOMAIN element |-> parseJSONElement(k, element[k])]]

\* read_json_map
read_json_map(doc) == parseJSONElement("", doc)

\* the keys of a dict in insertion order
Keys(d) == SelectSeq(KeyOrder, LAMBDA k : k \in DOMAIN d.items)

Yield(regs, exc) == [yielded |-> regs, exc |-> exc]

RECURSIVE getRegPath(_, _, _)
\* the loop over split_path, with what was yielded so far
getRegPath(split_path, subMap, out) ==
    IF split_path = <<>> THEN Yield(out, "")
    ELSE IF subMap.kind = "dict"
    THEN IF Head(split_path) \notin DOMAIN subMap.items
         THEN Yield(out, "RegisterMapError")
         ELSE LET next == subMap.items[Head(split_path)]
              IN  getRegPath(Tail(split_path), next,
                             IF next.kind = "Register"
                             THEN Append(out, next.addr) ELSE out)
    ELSE getRegPath(Tail(split_path), subMap, Append(out, subMap.addr))

RECURSIVE getRegName(_, _, _)
\* the loop over subMap.items() for a bare name; keys are those still to visit
getRegName(name, subMap, keys) ==
    IF keys = <<>> THEN <<>>
    ELSE LET k == Head(keys)
             v == subMap.items[k]
         IN  (IF k = name /\ v.kind = "Register" THEN <<v.addr>> ELSE <<>>)
             \o (IF v.kind = "dict" THEN getRegName(name, v, Keys(v)) ELSE <<>>)
             \o getRegName(name, subMap, Tail(keys))

RECURSIVE getRegNameTop(_, _, _)
\* the loop over subMap.items() that does not descend into the sub-trees
getRegNameTop(name, subMap, keys) ==
    IF keys = <<>> THEN <<>>
    ELSE LET k == Head(keys)
             v == subMap.items[k]
         IN  (IF k = name /\ v.kind = "Register" THEN <<v.addr>> ELSE <<>>)
             \o getRegNameTop(name, subMap, Tail(keys))

\* split_path after `del split_path[-1]` for a trailing "/"
DropTrailing(path) ==
    IF path[Len(path)] = "" THEN SubSeq(path, 1, Len(path) - 1) ELSE path

\* getReg that looks for a bare name among the top-level entries only
getReg_top(path, m) ==
    IF Len(path) > 1
    THEN getRegPath(DropTrailing(path), m, <<>>)
    ELSE Yield(getRegNameTop(path[1], m, Keys(m)), "")

\* RegisterMap.getReg, consumed to its end
getReg(path, m) ==
    IF Len(path) > 1
    THEN getRegPath(DropTrailing(path), m, <<>>)
    ELSE Yield(getRegName(path[1], m, Keys(m)), "")

RECURSIVE set_policy(_, _, _)
\* reg.policy and reg.poll_freq assigned from `policy` on the registers that
\* getReg yielded; the addresses tell the registers of JsonDocs apart
set_policy(node, addrs, policy) ==
    IF node.kind = "Register"
    THEN IF node.addr \in addrs
         THEN [node EXCEPT
                 !.policy = dict_get(policy, "policy", node.policy),
                 !.poll_freq = dict_get(policy, "frequency", node.poll_freq)]
         ELSE node
    ELSE [kind |-> "dict",
          items |-> [k \in DOMAIN node.items |->
                        set_policy(node.items[k], addrs, policy)]]

RECURSIVE apply_overwrites(_, _)
\* the loop of RegisterMap.__init__ over policy_overwrites.items(): the map
\* it leaves and the exception that ended it, if any
apply_overwrites(m, entries) ==
    IF entries = <<>> THEN [map |-> m, exc |-> ""]
    ELSE LET regs == getReg(Head(entries).regName, m)
             yielded == {regs.yielded[i] : i \in 1..Len(regs.yielded)}
             merged == set_policy(m, yielded, Head(entries).policy)
         IN  IF regs.exc # "" THEN [map |-> merged, exc |-> regs.exc]
             ELSE apply_overwrites(merged, Tail(entries))

\* keys of a policy file: names, paths to a register, to a namespace, past a
\* register, and through a segment that is no key
PolicyKeys ==
    {<<"status">>, <<"ctrl">>, <<"x">>, <<"a", "status">>, <<"a", "b", "status">>,
     <<"a", "status", "x">>, <<"x", "status">>, <<"a", "b">>}

PolicyValues ==
    {NoOverwrite, PolicyOverwrite("polled"), FrequencyOverwrite(50),
     FreqOverwrite("immediate", 150)}

\* policy files of two entries, in the order of the file
PolicyFiles ==
    {f \in [1..2 -> [regName : PolicyKeys, policy : PolicyValues]] :
        f[1].regName # f[2].regName}

\* the controller keeps no RegisterMap
NoMap == [kind |-> "dict", items |-> <<>>]
NoLookup == [path |-> <<>>, done |-> FALSE, yielded |-> <<>>, exc |-> ""]

\* no policy file is merged, and no controller start is followed
NoOverwrites == [entries |-> <<>>, read |-> NoMap, done |-> FALSE, exc |-> ""]
NoStartup == [done |-> FALSE]

(***************************************************************************)
(* The two encodings of a map.  An XML attribute is a string, kept as the  *)
(* sequence of its characters; int() is what turns it into a number.       *)
(***************************************************************************)
DigitChars ==
    <<"0", "1", "2", "3", "4", "5", "6", "7", "8", "9",
      "a", "b", "c", "d", "e", "f">>

RECURSIVE int_digits(_, _, _)
int_digits(s, base, acc) ==
    IF s = <<>> THEN acc
    ELSE LET digit == (CHOOSE i \in 1..Len(DigitChars) :
                            DigitChars[i] = Head(s)) - 1
         IN  int_digits(Tail(s), base, acc * base + digit)

\* int(s, base): base 16 takes the "0x" prefix
int_str(s, base) ==
    int_digits(IF base = 16 /\ Len(s) > 2 /\ SubSeq(s, 1, 2) = <<"0", "x">>
               THEN SubSeq(s, 3, Len(s)) ELSE s,
               base, 0)

\* an ElementTree element: its attributes and its child elements
Element(attrib, children) == [attrib |-> attrib, children |-> children]

\* what attrib.get gives for an attribute the element does not carry
None == <<"None">>

attrib_get(info, key, default) ==
    IF key \in DOMAIN info THEN info[key] ELSE default

\* the test both parsers make: the children of the element are its bit fields
has_fields(element) ==
    /\ element.children # <<>>
    /\ LET first_child == element.children[1].attrib
       IN  /\ "mask" \in DOMAIN first_child
           /\ "address" \notin DOMAIN first_child
           /\ attrib_get(first_child, "absolute_offset", None)
                = attrib_get(element.attrib, "absolute_offset", None)

\* the child a dict keeps under key k: the last one of that id
child_of(element, k) ==
    LET last == CHOOSE i \in DOMAIN element.children :
                    /\ element.children[i].attrib.id = k
                    /\ \A j \in DOMAIN element.children :
                          element.children[j].attrib.id = k => j <= i
    IN  element.children[last]

child_ids(element) ==
    {element.children[i].attrib.id : i \in DOMAIN element.children}

RECURSIVE parseXMLElement(_)
parseXMLElement(element) ==
    LET info == element.attrib
    IN  IF element.children # <<>> /\ ~has_fields(element)
        THEN [kind |-> "dict",
              items |-> [k \in child_ids(element) |->
                            parseXMLElement(child_of(element, k))]]
        ELSE [kind |-> "Register", name |-> info.id,
              addr |-> int_str(info.absolute_offset, 16),
              size |-> (IF "size" \in DOMAIN info
                        THEN int_str(info.size, 10)
                        ELSE DefaultSizeWords) * WordBytes,
              bitFields |-> [i \in DOMAIN element.children |->
                               [name |-> element.children[i].attrib.id,
                                mask |-> int_str(element.children[i].attrib.mask, 16)]],
              policy |-> "", poll_freq |-> 0]

\* read_xml_map
read_xml_map(root) == parseXMLElement(root)

\* Config.parseRegisterElement of the converter, no policy file given: the
\* attributes go into the JSON document as the strings they are
RECURSIVE convert_element(_, _)
convert_element(element, options) ==
    LET info == element.attrib
    IN  IF element.children # <<>> /\ ~has_fields(element)
        THEN [k \in child_ids(element) |->
                 convert_element(child_of(element, k), options)]
        ELSE (IF element.children # <<>>
              THEN "fields" :>
                      [i \in DOMAIN element.children |->
                          [name |-> element.children[i].attrib.id,
                           permission |-> attrib_get(element.children[i].attrib,
                                                     "permission", "r"),
                           mask |-> element.children[i].attrib.mask]]
              ELSE <<>>)
             @@ [addr |-> info.absolute_offset]
             @@ (IF "size" \in DOMAIN info THEN "size" :> info.size ELSE <<>>)
             @@ [permission |-> info.permission,
                 access_policy |-> options.policy]
             @@ (IF options.policy = "polled"
                 THEN "poll_rate" :> options.poll_rate ELSE <<>>)

\* the bit fields of the maps drawn: none, or one under either mask
MapFields(offset) ==
    {<<>>,
     <<Element([id |-> "enable", mask |-> <<"0", "x", "1">>,
                permission |-> "rw", absolute_offset |-> offset], <<>>)>>,
     <<Element([id |-> "enable", mask |-> <<"0", "x", "f", "0">>,
                permission |-> "rw", absolute_offset |-> offset], <<>>)>>}

\* a register element
RegisterElement(id, offset, size, fields) ==
    Element([id |-> id, absolute_offset |-> offset, permission |-> "rw"]
            @@ (IF size = None THEN <<>> ELSE "size" :> size),
            fields)

\* the XML maps drawn: a register at the top and one inside an area
XmlMaps ==
    {Element([id |-> "top"],
             <<RegisterElement("ctrl", offset, size, <<>>),
               Element([id |-> "a", absolute_offset |-> <<"0", "x", "4">>],
                       <<RegisterElement("status", <<"0", "x", "4">>, size2,
                                         fields)>>)>>) :
        offset \in {<<"0", "x", "0">>, <<"0", "x", "1", "0">>},
        size \in {None, <<"1">>, <<"2">>}, size2 \in {None, <<"2">>},
        fields \in MapFields(<<"0", "x", "4">>)}

\* --policy and --poll_rate of the converter
ConverterOptions ==
    {[policy |-> p, poll_rate |-> DefaultPollRate] : p \in {"static", "polled"}}

NoConversion == [stage |-> "none"]

\* no transport is driven on its own
NoTransport == [class |-> "none"]

\* an XML map and the options of the converter, nothing loaded or written yet
InitConvert ==
    /\ map = NoMap
    /\ lookup = NoLookup
    /\ policy_overwrites = NoOverwrites
    /\ startup = NoStartup
    /\ transport = NoTransport
    /\ \E xml \in XmlMaps, options \in ConverterOptions :
            conversion = [stage |-> "xml", xml |-> xml, options |-> options,
                          xml_map |-> NoMap, xml_read |-> FALSE,
                          json |-> <<>>, json_map |-> NoMap]
    /\ \E doc \in MapDocs, options \in OptionSets, ow \in OverwriteSets :
            /\ doc[1].permission = <<"r">>
            /\ ~options.read_on_open
            /\ ow[1] = NoOverwrite
            /\ Constructed(doc, options, ow)


(***************************************************************************)
(* The transports on their own: XDmaAccessor of RegisterAccessor, and      *)
(* XDmaAccessor and AdxdmaAccessor of memoryaccessor.  `handle` is the     *)
(* mmap and device file (the window and device handle of ADXDMA): "None"   *)
(* before open, then "open", then "closed".                                *)
(***************************************************************************)
TransportClasses ==
    {"RegisterAccessor.XDmaAccessor", "memoryaccessor.XDmaAccessor",
     "memoryaccessor.AdxdmaAccessor"}

\* the bytes of the device and the addresses callers give
DeviceBytes == {0, 1}
DeviceAddrs == {0, 1}

TransportCall(op, addr, data) == [op |-> op, addr |-> addr, data |-> data]

\* an accessor after __init__, in front of a device
Accessor(class, device) ==
    [class |-> class, isConnected |-> FALSE, handle |-> "None",
     device |-> device, call |-> TransportCall("init", 0, <<>>),
     exc |-> "", val |-> <<>>]

\* a transport of either class after __init__, beside an idle controller
InitTransport ==
    /\ map = NoMap
    /\ lookup = NoLookup
    /\ policy_overwrites = NoOverwrites
    /\ startup = NoStartup
    /\ conversion = NoConversion
    /\ \E class \in TransportClasses, device \in [1..Cardinality(DeviceAddrs) -> DeviceBytes] :
            transport = Accessor(class, device)
    /\ \E doc \in MapDocs, options \in OptionSets, ow \in OverwriteSets :
            /\ doc[1].permission = <<"r">>
            /\ ~options.read_on_open
            /\ ow[1] = NoOverwrite
            /\ Constructed(doc, options, ow)


Init ==
    /\ map = NoMap
    /\ lookup = NoLookup
    /\ policy_overwrites = NoOverwrites
    /\ startup = NoStartup
    /\ conversion = NoConversion
    /\ transport = NoTransport
    /\ \E doc \in MapDocs, options \in OptionSets, ow \in OverwriteSets :
            Constructed(doc, options, ow)

\* __init__ with the frequencies of the overwrite file
InitPoll ==
    /\ map = NoMap
    /\ lookup = NoLookup
    /\ policy_overwrites = NoOverwrites
    /\ startup = NoStartup
    /\ conversion = NoConversion
    /\ transport = NoTransport
    /\ \E doc \in MapDocs, options \in OptionSets, ow \in FreqOverwriteSets :
            Constructed(doc, options, ow)

\* __init__ on a map whose first register can be read and written and is
\* not polled, the second one being polled
InitFrame ==
    /\ map = NoMap
    /\ lookup = NoLookup
    /\ policy_overwrites = NoOverwrites
    /\ startup = NoStartup
    /\ conversion = NoConversion
    /\ transport = NoTransport
    /\ \E doc \in MapDocs, options \in OptionSets, ow \in OverwriteSets :
            /\ doc[1].permission = <<"r", "w">>
            /\ ~options.read_on_open
            /\ ow[1] # PolicyOverwrite("polled")
            /\ Constructed(doc, options, ow)

\* access_policy_overwrites with frequencies of 40 and 100 ms, the second
\* register polled
PaceOverwriteSets ==
    {ow \in [Regs -> {NoOverwrite} \cup
                     {FreqOverwrite("polled", f) : f \in {40, 100}}] :
        ow[2] # NoOverwrite}

\* __init__ with the frequencies of PaceOverwriteSets
InitSteady ==
    /\ map = NoMap
    /\ lookup = NoLookup
    /\ policy_overwrites = NoOverwrites
    /\ startup = NoStartup
    /\ conversion = NoConversion
    /\ transport = NoTransport
    /\ \E doc \in MapDocs, options \in OptionSets, ow \in PaceOverwriteSets :
            /\ doc[1].permission = <<"r">>
            /\ ~options.read_on_open
            /\ Constructed(doc, options, ow)

\* segments of the paths callers give: keys of the documents, a name that is
\* no key, and the empty segment that "//" or a leading or trailing "/" leaves
Segments == {"a", "b", "status", "ctrl", "x", ""}

Paths == UNION {[1..n -> Segments] : n \in 1..MaxSegs}

\* a RegisterMap read from a JSON document and the path of a getReg call,
\* beside an idle controller
InitMap ==
    /\ \E doc \in JsonDocs : map = read_json_map(doc)
    /\ \E path \in Paths : lookup = [NoLookup EXCEPT !.path = path]
    /\ policy_overwrites = NoOverwrites
    /\ startup = NoStartup
    /\ conversion = NoConversion
    /\ transport = NoTransport
    /\ \E doc \in MapDocs, options \in OptionSets, ow \in OverwriteSets :
            /\ doc[1].permission = <<"r">>
            /\ ~options.read_on_open
            /\ ow[1] = NoOverwrite
            /\ Constructed(doc, options, ow)

\* a RegisterMap that has read its JSON document and is about to merge its
\* policy file, beside an idle controller
InitMerge ==
    /\ \E doc \in JsonDocs, entries \in PolicyFiles :
            /\ map = read_json_map(doc)
            /\ policy_overwrites =
                  [entries |-> entries, read |-> read_json_map(doc),
                   done |-> FALSE, exc |-> ""]
    /\ lookup = NoLookup
    /\ startup = NoStartup
    /\ conversion = NoConversion
    /\ transport = NoTransport
    /\ \E doc \in MapDocs, options \in OptionSets, ow \in OverwriteSets :
            /\ doc[1].permission = <<"r">>
            /\ ~options.read_on_open
            /\ ow[1] = NoOverwrite
            /\ Constructed(doc, options, ow)

\* the files a controller is about to be started on, beside an idle controller
InitAttach ==
    /\ map = NoMap
    /\ lookup = NoLookup
    /\ policy_overwrites = NoOverwrites
    /\ conversion = NoConversion
    /\ transport = NoTransport
    /\ \E reg_map \in XmlDocs, options \in StartOptions, overwrites \in OverwriteFiles :
            startup = [done |-> FALSE, reg_map |-> reg_map, options |-> options,
                       overwrites |-> overwrites]
    /\ \E doc \in MapDocs, options \in OptionSets, ow \in OverwriteSets :
            /\ doc[1].permission = <<"r">>
            /\ ~options.read_on_open
            /\ ow[1] = NoOverwrite
            /\ Constructed(doc, options, ow)

(***************************************************************************)
(* The transport: XDmaAccessor over the device memory.  `fails` is the     *)
(* device rejecting the operation (an exception out of the transport).     *)
(***************************************************************************)
ReadOp(addr, size, ok) ==
    [op |-> "read", addr |-> addr, size |-> size, data |-> <<>>, ok |-> ok]
WriteOp(addr, data, ok) ==
    [op |-> "write", addr |-> addr, size |-> Len(data), data |-> data, ok |-> ok]

\* XDmaAccessor.read: the `size` bytes at `addr`
accessor_read(memory, addr, size) == SubSeq(memory, addr + 1, addr + size)

\* XDmaAccessor.write: `data` stored at `addr`
accessor_write(memory, addr, data) ==
    [i \in 1..Len(memory) |->
        IF i > addr /\ i <= addr + Len(data) THEN data[i - addr] ELSE memory[i]]

\* mmap.write raises ValueError when the data does not fit the mapping
write_fits(memory, addr, data) == addr + Len(data) <= Len(memory)

(***************************************************************************)
(* The methods of the three transports, on the accessor t.                 *)
(***************************************************************************)
\* the call c ends: with the exception exc, or returning val
Ended(t, c, exc, val) == [t EXCEPT !.call = c, !.exc = exc, !.val = val]

\* XDmaAccessor.open of RegisterAccessor; found = the character device exists
xdma_open(t, found) ==
    IF found
    THEN Ended([t EXCEPT !.handle = "open", !.isConnected = TRUE],
               TransportCall("open", 0, <<>>), "", <<>>)
    ELSE Ended(t, TransportCall("open", 0, <<>>), "XdmaException", <<>>)

xdma_close(t) ==
    Ended(IF t.isConnected
          THEN [t EXCEPT !.handle = "closed", !.isConnected = FALSE]
          ELSE t,
          TransportCall("close", 0, <<>>), "", <<>>)

xdma_read(t, addr, size) ==
    IF ~t.isConnected
    THEN Ended(t, TransportCall("read", addr, <<>>), "XdmaException", <<>>)
    ELSE Ended(t, TransportCall("read", addr, <<>>), "",
               accessor_read(t.device, addr, size))

xdma_write(t, addr, data) ==
    IF ~t.isConnected
    THEN Ended(t, TransportCall("write", addr, data), "XdmaException", <<>>)
    ELSE IF ~write_fits(t.device, addr, data)
    THEN Ended(t, TransportCall("write", addr, data), "ValueError", <<>>)
    ELSE Ended([t EXCEPT !.device = accessor_write(t.device, addr, data)],
               TransportCall("write", addr, data), "", <<>>)

\* XDmaAccessor.open of memoryaccessor; found = the path is a regular file.
\* os.open(fullpath) is called without its flags argument and raises
\* TypeError before anything is assigned
old_xdma_open(t, found) ==
    IF found
    THEN Ended(t, TransportCall("open", 0, <<>>), "TypeError", <<>>)
    ELSE Ended(t, TransportCall("open", 0, <<>>), "XdmaException", <<>>)

\* close leaves _isConnected as it is; a second close of an open transport
\* closes the file descriptor again
old_xdma_close(t) ==
    IF ~t.isConnected
    THEN Ended(t, TransportCall("close", 0, <<>>), "", <<>>)
    ELSE IF t.handle = "open"
    THEN Ended([t EXCEPT !.handle = "closed"],
               TransportCall("close", 0, <<>>), "", <<>>)
    ELSE Ended(t, TransportCall("close", 0, <<>>), "OSError", <<>>)

\* self.memory[addr: addr + size] with no test of the connection: None is not
\* subscriptable, a closed mmap raises ValueError
old_xdma_read(t, addr, size) ==
    CASE t.handle = "None" ->
            Ended(t, TransportCall("read", addr, <<>>), "TypeError", <<>>)
      [] t.handle = "closed" ->
            Ended(t, TransportCall("read", addr, <<>>), "ValueError", <<>>)
      [] OTHER ->
            Ended(t, TransportCall("read", addr, <<>>), "",
                  accessor_read(t.device, addr, size))

old_xdma_write(t, addr, data) ==
    CASE t.handle = "None" ->
            Ended(t, TransportCall("write", addr, data), "TypeError", <<>>)
      [] t.handle = "closed" ->
            Ended(t, TransportCall("write", addr, data), "ValueError", <<>>)
      [] ~write_fits(t.device, addr, data) ->
            Ended(t, TransportCall("write", addr, data), "IndexError", <<>>)
      [] OTHER ->
            Ended([t EXCEPT !.device = accessor_write(t.device, addr, data)],
                  TransportCall("write", addr, data), "", <<>>)

\* AdxdmaAccessor.open; ok1, ok2 = the library reports SUCCESS for
\* ADXDMA_Open and ADXDMA_OpenWindow
adxdma_open(t, ok1, ok2) ==
    IF ok1 /\ ok2
    THEN Ended([t EXCEPT !.handle = "open", !.isConnected = TRUE],
               TransportCall("open", 0, <<>>), "", <<>>)
    ELSE Ended(t, TransportCall("open", 0, <<>>), "AdxdmaException", <<>>)

\* AdxdmaAccessor.close calls the library whatever the connection is; ok1,
\* ok2 = the library reports SUCCESS for ADXDMA_CloseWindow and ADXDMA_Close
adxdma_close(t, ok1, ok2) ==
    IF ~ok1
    THEN Ended(t, TransportCall("close", 0, <<>>), "AdxdmaException", <<>>)
    ELSE Ended([t EXCEPT !.isConnected = FALSE,
                         !.handle = IF ok2 THEN "closed" ELSE @],
               TransportCall("close", 0, <<>>),
               IF ok2 THEN "" ELSE "AdxdmaException", <<>>)

adxdma_read(t, addr, size, ok) ==
    IF ~t.isConnected \/ ~ok
    THEN Ended(t, TransportCall("read", addr, <<>>), "AdxdmaException", <<>>)
    ELSE Ended(t, TransportCall("read", addr, <<>>), "",
               accessor_read(t.device, addr, size))

adxdma_write(t, addr, data, ok) ==
    IF ~t.isConnected \/ ~ok \/ ~write_fits(t.device, addr, data)
    THEN Ended(t, TransportCall("write", addr, data), "AdxdmaException", <<>>)
    ELSE Ended([t EXCEPT !.device = accessor_write(t.device, addr, data)],
               TransportCall("write", addr, data), "", <<>>)

Return(v) == [exc |-> "", msg |-> "", val |-> v]
Raise(e, m) == [exc |-> e, msg |-> m, val |-> 0]

Outcome(r, m, v, l) == [ret |-> r, mem |-> m, value |-> v, log |-> l]

\* self.registers.get(register): the register stored under the address, 0 = None
registers_get(a) ==
    IF \E r \in Regs : registers[r].addr = a
    THEN CHOOSE r \in Regs : registers[r].addr = a
    ELSE 0

\* the Register the handler works on, 0 when the address is not in the map
resolve(register) ==
    IF register.kind = "int" THEN registers_get(register.addr) ELSE register.r

(***************************************************************************)
(* The handlers, as functions of the current state.                        *)
(***************************************************************************)
\* static_reg_read without the test of the cache
static_reg_read_uncached(r, fails) ==
    IF connected
    THEN IF fails
         THEN Outcome(Raise("TransportError", "read"), mem, value,
                      <<ReadOp(addr_of(r), size_of(r), FALSE)>>)
         ELSE LET v == accessor_read(mem, addr_of(r), size_of(r))
              IN  Outcome(Return(from_bytes(v)), mem, [value EXCEPT ![r] = v],
                          <<ReadOp(addr_of(r), size_of(r), TRUE)>>)
    ELSE Outcome(Return(from_bytes(value[r])), mem, value, <<>>)

static_reg_read(r, fails) ==
    IF Len(value[r]) = 0 /\ connected
    THEN IF fails
         THEN Outcome(Raise("TransportError", "read"), mem, value,
                      <<ReadOp(addr_of(r), size_of(r), FALSE)>>)
         ELSE LET v == accessor_read(mem, addr_of(r), size_of(r))
              IN  Outcome(Return(from_bytes(v)), mem, [value EXCEPT ![r] = v],
                          <<ReadOp(addr_of(r), size_of(r), TRUE)>>)
    ELSE Outcome(Return(from_bytes(value[r])), mem, value, <<>>)

\* a getter of a polled register that fetches whenever the transport is open
polled_read_fresh(r) == static_reg_read_uncached(r, FALSE)

\* the getter of a polled register: lambda: int.from_bytes(reg.value, ...)
polled_read(r) == Outcome(Return(from_bytes(value[r])), mem, value, <<>>)

\* immediate_reg_read without the test of isConnected: the transport raises
immediate_reg_read_unguarded(register, fails) ==
    LET r == resolve(register)
    IN  IF r = 0
        THEN Outcome(Raise("ControllerError", "Not found in Register map"),
                     mem, value, <<>>)
        ELSE IF registers[r].read
        THEN IF fails \/ ~connected
             THEN Outcome(Raise("TransportError", "read"), mem, value,
                          <<ReadOp(addr_of(r), size_of(r), FALSE)>>)
             ELSE LET v == accessor_read(mem, addr_of(r), size_of(r))
                  IN  Outcome(Return(from_bytes(v)), mem,
                              [value EXCEPT ![r] = v],
                              <<ReadOp(addr_of(r), size_of(r), TRUE)>>)
        ELSE Outcome(Raise("ControllerError", "Register not readable"),
                     mem, value, <<>>)

immediate_reg_read(register, fails) ==
    LET r == resolve(register)
    IN  IF r = 0
        THEN Outcome(Raise("ControllerError", "Not found in Register map"),
                     mem, value, <<>>)
        ELSE IF registers[r].read
        THEN IF connected
             THEN IF fails
                  THEN Outcome(Raise("TransportError", "read"), mem, value,
                               <<ReadOp(addr_of(r), size_of(r), FALSE)>>)
                  ELSE LET v == accessor_read(mem, addr_of(r), size_of(r))
                       IN  Outcome(Return(from_bytes(v)), mem,
                                   [value EXCEPT ![r] = v],
                                   <<ReadOp(addr_of(r), size_of(r), TRUE)>>)
             ELSE Outcome(Return(from_bytes(value[r])), mem, value, <<>>)
        ELSE Outcome(Raise("ControllerError", "Register not readable"),
                     mem, value, <<>>)

\* write_register that stores the written bytes as the cache and reads nothing
write_register_shadow(data, register, failsWrite, failsRead) ==
    IF register.kind = "missing"
    THEN Outcome(Raise("TypeError", "missing argument: register"), mem, value, <<>>)
    ELSE
    LET r == resolve(register)
    IN  IF r = 0
        THEN Outcome(Raise("ControllerError", "Not found in Register map"),
                     mem, value, <<>>)
        ELSE IF registers[r].write /\ connected
        THEN IF failsWrite \/ ~write_fits(mem, addr_of(r), data)
             THEN Outcome(Raise("TransportError", "write"), mem, value,
                          <<WriteOp(addr_of(r), data, FALSE)>>)
             ELSE Outcome(Return(0), accessor_write(mem, addr_of(r), data),
                          [value EXCEPT ![r] = data],
                          <<WriteOp(addr_of(r), data, TRUE)>>)
        ELSE IF register.kind = "int"
        THEN Outcome(Raise("AttributeError", "'int' object has no attribute 'name'"),
                     mem, value, <<>>)
        ELSE Outcome(Raise("ControllerError",
                           IF registers[r].write THEN "Not Connected"
                           ELSE "Register not writeable"),
                     mem, value, <<>>)

\* write_register that refreshes the cache before it writes
write_register_stale(data, register, failsWrite, failsRead) ==
    IF register.kind = "missing"
    THEN Outcome(Raise("TypeError", "missing argument: register"), mem, value, <<>>)
    ELSE
    LET r == resolve(register)
    IN  IF r = 0
        THEN Outcome(Raise("ControllerError", "Not found in Register map"),
                     mem, value, <<>>)
        ELSE IF registers[r].write /\ connected
        THEN LET rd == ReadOp(addr_of(r), size_of(r), ~failsRead)
                 old == accessor_read(mem, addr_of(r), size_of(r))
             IN  IF registers[r].read /\ failsRead
                 THEN Outcome(Raise("TransportError", "read"), mem, value, <<rd>>)
                 ELSE IF failsWrite \/ ~write_fits(mem, addr_of(r), data)
                 THEN Outcome(Raise("TransportError", "write"), mem, value,
                              IF registers[r].read
                              THEN <<rd, WriteOp(addr_of(r), data, FALSE)>>
                              ELSE <<WriteOp(addr_of(r), data, FALSE)>>)
                 ELSE IF registers[r].read
                 THEN Outcome(Return(0), accessor_write(mem, addr_of(r), data),
                              [value EXCEPT ![r] = old],
                              <<rd, WriteOp(addr_of(r), data, TRUE)>>)
                 ELSE Outcome(Return(0), accessor_write(mem, addr_of(r), data),
                              value, <<WriteOp(addr_of(r), data, TRUE)>>)
        ELSE IF register.kind = "int"
        THEN Outcome(Raise("AttributeError", "'int' object has no attribute 'name'"),
                     mem, value, <<>>)
        ELSE Outcome(Raise("ControllerError",
                           IF registers[r].write THEN "Not Connected"
                           ELSE "Register not writeable"),
                     mem, value, <<>>)

\* write_register(value, register); `data` is passed to the transport as it is
write_register(data, register, failsWrite, failsRead) ==
    IF register.kind = "missing"
    THEN Outcome(Raise("TypeError", "missing argument: register"), mem, value, <<>>)
    ELSE
    LET r == resolve(register)
    IN  IF r = 0
        THEN Outcome(Raise("ControllerError", "Not found in Register map"),
                     mem, value, <<>>)
        ELSE IF registers[r].write /\ connected
        THEN IF failsWrite \/ ~write_fits(mem, addr_of(r), data)
             THEN Outcome(Raise("TransportError", "write"), mem, value,
                          <<WriteOp(addr_of(r), data, FALSE)>>)
             ELSE LET m == accessor_write(mem, addr_of(r), data)
                      w == WriteOp(addr_of(r), data, TRUE)
                  IN  IF registers[r].read
                      THEN IF failsRead
                           THEN Outcome(Raise("TransportError", "read"), m, value,
                                        <<w, ReadOp(addr_of(r), size_of(r), FALSE)>>)
                           ELSE Outcome(Return(0), m,
                                    [value EXCEPT
                                        ![r] = accessor_read(m, addr_of(r), size_of(r))],
                                    <<w, ReadOp(addr_of(r), size_of(r), TRUE)>>)
                      ELSE Outcome(Return(0), m, value, <<w>>)
        \* the message is built from `register`, not from the resolved `reg`
        ELSE IF register.kind = "int"
        THEN Outcome(Raise("AttributeError", "'int' object has no attribute 'name'"),
                     mem, value, <<>>)
        ELSE Outcome(Raise("ControllerError",
                           IF registers[r].write THEN "Not Connected"
                           ELSE "Register not writeable"),
                     mem, value, <<>>)

read_field(r, field) ==
    LET val == from_bytes(value[r])
        mask == field.mask
        shift == get_bitwise_trailing_zeros(mask)
    IN  Outcome(Return(ShiftR(BitAnd(val, mask), shift)), mem, value, <<>>)

\* the value write_field computes for the register
write_field_val(fval, r, field) ==
    LET mask == field.mask
        shift == get_bitwise_trailing_zeros(mask)
        start_val == BitAndNot(from_bytes(value[r]), mask)
    IN  BitAnd(start_val, BitAnd(ShiftL(fval, shift), mask))

\* write_field ends in self.write_register(write_val): no register is passed
write_field(fval, r, field) ==
    write_register(write_field_val(fval, r, field), Missing, FALSE, FALSE)

(***************************************************************************)
(* Inputs.                                                                 *)
(***************************************************************************)
WriteVals == {<<1, 0, 0, 0>>, <<1>>}       \* bytearrays callers write
HwVals == {<<255, 255, 255, 127>>}         \* contents the hardware produces
FieldVals == {0, 1, 3}                     \* values callers give to write_field
\* addresses callers pass instead of a Register; the last is not in the map
AddrArgs == {registers[r].addr : r \in Regs} \cup {WordBytes * Cardinality(Regs)}

RegSeq == [i \in 1..Cardinality(Regs) |-> i]   \* registers in map order

Written == 0 - 1

\* transport reads of register r in a handler's log
ReadsOf(l, r) ==
    Cardinality({i \in 1..Len(l) : l[i].op = "read" /\ l[i].addr = registers[r].addr})

NextFetches(r, c, l) ==
    IF read_accessor[r] # "static_reg_read" THEN static_fetches[r]
    ELSE IF static_fetches[r] = Written THEN Written
    ELSE IF /\ c.op \in {"write_register", "write_field", "immediate_reg_read"}
            /\ resolve(c.register) = r
    THEN Written
    ELSE Min(static_fetches[r] + ReadsOf(l, r), MaxIssued)

History(c, r, l) ==
    /\ call' = c
    /\ ret' = r
    /\ log' = l
    /\ static_fetches' = [x \in Regs |-> NextFetches(x, c, l)]

\* a handler that touches the caches and the device memory only
Do(c, out) ==
    /\ History(c, out.ret, out.log)
    /\ mem' = out.mem
    /\ value' = out.value
    /\ UNCHANGED <<regmap, config, connected, polling, timeLastRead, now>>

(***************************************************************************)
(* Actions: one per handler.                                               *)
(***************************************************************************)
\* `fails` is chosen only where the handler reaches the transport
Reached(fails, out) == fails => out.ret.exc = "TransportError"

StaticRegRead ==
    \E r \in Regs, fails \in BOOLEAN :
        /\ polling
        /\ read_accessor[r] = "static_reg_read"
        /\ Reached(fails, static_reg_read(r, fails))
        /\ Do(Call("static_reg_read", RegArg(r), <<>>, 0, 0),
              static_reg_read(r, fails))

PolledRead ==
    \E r \in Regs :
        /\ polling
        /\ read_accessor[r] = "polled"
        /\ Do(Call("polled_read", RegArg(r), <<>>, 0, 0), polled_read(r))

\* the getter of an immediate register
ImmediateRegRead ==
    \E r \in Regs, fails \in BOOLEAN :
        /\ polling
        /\ read_accessor[r] = "immediate_reg_read"
        /\ Reached(fails, immediate_reg_read(RegArg(r), fails))
        /\ Do(Call("immediate_reg_read", RegArg(r), <<>>, 0, 0),
              immediate_reg_read(RegArg(r), fails))

\* immediate_reg_read called with an address
ImmediateRegReadAddr ==
    \E a \in AddrArgs, fails \in BOOLEAN :
        /\ polling
        /\ Reached(fails, immediate_reg_read(IntArg(a), fails))
        /\ Do(Call("immediate_reg_read", IntArg(a), <<>>, 0, 0),
              immediate_reg_read(IntArg(a), fails))

\* which transport operation of a write fails, if any
WriteFaults == {"none", "write", "read"}

WriteRegister ==
    \E r \in Regs, data \in WriteVals, fault \in WriteFaults :
        LET out == write_register(data, RegArg(r), fault = "write", fault = "read")
        IN  /\ polling
            /\ fault # "none" =>
                    /\ out.ret.exc = "TransportError"
                    /\ out.ret.msg = fault
            /\ Do(Call("write_register", RegArg(r), data, 0, 0), out)

\* write_register called with an address
WriteRegisterAddr ==
    \E a \in AddrArgs, data \in WriteVals, fault \in WriteFaults :
        LET out == write_register(data, IntArg(a), fault = "write", fault = "read")
        IN  /\ polling
            /\ fault # "none" =>
                    /\ out.ret.exc = "TransportError"
                    /\ out.ret.msg = fault
            /\ Do(Call("write_register", IntArg(a), data, 0, 0), out)

ReadField ==
    \E r \in Regs :
        \E field \in registers[r].bitFields :
            /\ polling
            /\ Do(Call("read_field", RegArg(r), <<>>, field.mask, 0),
                  read_field(r, field))

WriteField ==
    \E r \in Regs, fval \in FieldVals :
        \E field \in registers[r].bitFields :
            /\ polling
            /\ field.write
            /\ Do(Call("write_field", RegArg(r), <<>>, field.mask, fval),
                  write_field(fval, r, field))

\* an open_device that reads back only the registers that are readable
open_device_readable_only ==
    \E openFails \in BOOLEAN :
        /\ polling
        /\ IF openFails
           THEN /\ History(Call("open_device", Missing, <<>>, 0, 0),
                           Raise("TransportError", "open"), <<>>)
                /\ UNCHANGED <<connected, value>>
           ELSE /\ connected' = TRUE
                /\ IF read_on_open
                   THEN LET readable == SelectSeq(RegSeq, LAMBDA r : registers[r].read)
                        IN  /\ value' = [r \in Regs |->
                                            IF registers[r].read
                                            THEN accessor_read(mem, addr_of(r), size_of(r))
                                            ELSE value[r]]
                            /\ History(Call("open_device", Missing, <<>>, 0, 0),
                                       Return(0),
                                       [i \in 1..Len(readable) |->
                                           ReadOp(addr_of(readable[i]),
                                                  size_of(readable[i]), TRUE)])
                   ELSE /\ value' = value
                        /\ History(Call("open_device", Missing, <<>>, 0, 0),
                                   Return(0), <<>>)
        /\ UNCHANGED <<regmap, config, polling, mem, timeLastRead, now>>

\* open_device: accessor.open(), then read every register if read_on_open
OpenDevice ==
    \E openFails \in BOOLEAN, failAt \in 0..Cardinality(Regs) :
        /\ polling
        /\ IF openFails
           THEN /\ failAt = 0
                /\ History(Call("open_device", Missing, <<>>, 0, 0),
                           Raise("TransportError", "open"), <<>>)
                /\ UNCHANGED <<connected, value>>
           ELSE /\ connected' = TRUE
                /\ IF read_on_open
                   THEN LET n == IF failAt = 0 THEN Cardinality(Regs) ELSE failAt
                            l == [i \in 1..n |->
                                    ReadOp(addr_of(RegSeq[i]), size_of(RegSeq[i]),
                                           i # failAt)]
                        IN  /\ value' = [r \in Regs |->
                                            IF failAt = 0 \/ r < failAt
                                            THEN accessor_read(mem, addr_of(r), size_of(r))
                                            ELSE value[r]]
                            /\ History(Call("open_device", Missing, <<>>, 0, 0),
                                       IF failAt = 0 THEN Return(0)
                                       ELSE Raise("TransportError", "read"), l)
                   ELSE /\ failAt = 0
                        /\ value' = value
                        /\ History(Call("open_device", Missing, <<>>, 0, 0),
                                   Return(0), <<>>)
        /\ UNCHANGED <<regmap, config, polling, mem, timeLastRead, now>>

\* a close that also takes the registers off the scheduler
close_unregistering ==
    /\ polling
    /\ connected' = FALSE
    /\ polled_registers' = <<>>
    /\ History(Call("close", Missing, <<>>, 0, 0), Return(0), <<>>)
    /\ UNCHANGED <<regmap, registers, read_accessor, read_on_open, poll_freq,
                   polling, mem, value, timeLastRead, now>>

\* a close that also forgets what was read from the registers
close_dropping_caches ==
    /\ polling
    /\ connected' = FALSE
    /\ value' = [r \in Regs |-> <<>>]
    /\ History(Call("close", Missing, <<>>, 0, 0), Return(0), <<>>)
    /\ UNCHANGED <<regmap, config, polling, mem, timeLastRead, now>>

\* the "close" entry of the tree: accessor.close()
Close ==
    /\ polling
    /\ connected' = FALSE
    /\ History(Call("close", Missing, <<>>, 0, 0), Return(0), <<>>)
    /\ UNCHANGED <<regmap, config, polling, mem, value, timeLastRead, now>>

RECURSIVE SortedSeq(_)
SortedSeq(S) ==
    IF S = {} THEN <<>>
    ELSE LET m == CHOOSE x \in S : \A y \in S : x <= y
         IN  <<m>> \o SortedSeq(S \ {m})

\* the PeriodicCallback wakes polling_loop `dt` ms after the previous wake
TickSteps == {poll_freq}

\* a wake that refreshes every register of the map, those that are not
\* polled at the rate of the scheduler
polling_loop_every_register ==
    \E dt \in TickSteps :
        /\ polling
        /\ now + dt <= StartTime + MaxTicks * poll_freq
        /\ now' = now + dt
        /\ LET timestamp == now + dt
               freq == [r \in Regs |-> IF r \in DOMAIN polled_registers
                                       THEN polled_registers[r] ELSE poll_freq]
               due == SortedSeq({r \in Regs : timeLastRead[r] + freq[r] < timestamp})
           IN  IF connected
               THEN /\ value' = [r \in Regs |->
                                    IF \E i \in 1..Len(due) : due[i] = r
                                    THEN accessor_read(mem, addr_of(r), size_of(r))
                                    ELSE value[r]]
                    /\ timeLastRead' = [r \in Regs |->
                                    IF \E i \in 1..Len(due) : due[i] = r
                                    THEN timestamp ELSE timeLastRead[r]]
                    /\ History(Call("polling_loop", Missing, <<>>, 0, 0), Return(0),
                               [i \in 1..Len(due) |->
                                   ReadOp(addr_of(due[i]), size_of(due[i]), TRUE)])
               ELSE /\ UNCHANGED <<value, timeLastRead>>
                    /\ History(Call("polling_loop", Missing, <<>>, 0, 0),
                               Return(0), <<>>)
        /\ UNCHANGED <<regmap, config, connected, polling, mem>>

\* one wake of polling_loop; the model follows `ticks` wakes, and `faults`
\* are the fetches of the wake that may fail (0 = none)
wake(ticks, faults) ==
    \E dt \in TickSteps, failAt \in faults :
        /\ polling
        /\ now + dt <= StartTime + ticks * poll_freq
        /\ now' = now + dt
        /\ LET timestamp == now + dt
               due == SortedSeq({r \in DOMAIN polled_registers :
                                   timeLastRead[r] + polled_registers[r] < timestamp})
               n == IF failAt = 0 THEN Len(due) ELSE failAt
               done == {due[i] : i \in 1..(IF failAt = 0 THEN Len(due) ELSE failAt - 1)}
           IN  IF connected
               THEN /\ failAt <= Len(due)
                    /\ value' = [r \in Regs |->
                                    IF r \in done
                                    THEN accessor_read(mem, addr_of(r), size_of(r))
                                    ELSE value[r]]
                    /\ timeLastRead' = [r \in Regs |->
                                    IF r \in done THEN timestamp ELSE timeLastRead[r]]
                    /\ History(Call("polling_loop", Missing, <<>>, 0, 0),
                               IF failAt = 0 THEN Return(0)
                               ELSE Raise("TransportError", "read"),
                               [i \in 1..n |->
                                   ReadOp(addr_of(due[i]), size_of(due[i]), i # failAt)])
               ELSE /\ failAt = 0
                    /\ UNCHANGED <<value, timeLastRead>>
                    /\ History(Call("polling_loop", Missing, <<>>, 0, 0),
                               Return(0), <<>>)
        /\ UNCHANGED <<regmap, config, connected, polling, mem>>

polling_loop == wake(MaxTicks, 0..Cardinality(Regs))

\* polling_loop over a transport whose fetches succeed, followed for longer
steady_polling_loop == wake(MaxWakes, {0})

\* a call on the PeriodicCallback or on the transport that moves no data
ControlOp(op) == [op |-> op, addr |-> 0, size |-> 0, data |-> <<>>, ok |-> TRUE]

\* cleanup that closes the transport first and stops the PeriodicCallback last
cleanup_calls_reversed(isConnected) ==
    IF isConnected THEN <<ControlOp("close"), ControlOp("stop")>>
    ELSE <<ControlOp("stop")>>

\* the calls cleanup makes, in order
cleanup_calls(isConnected) ==
    IF isConnected THEN <<ControlOp("stop"), ControlOp("close")>>
    ELSE <<ControlOp("stop")>>

\* cleanup: stop the PeriodicCallback, then close the transport if connected
cleanup ==
    /\ polling
    /\ polling' = FALSE
    /\ connected' = FALSE
    /\ History(Call("cleanup", Missing, <<>>, 0, 0), Return(0),
               cleanup_calls(connected))
    /\ UNCHANGED <<regmap, config, mem, value, timeLastRead, now>>

\* the hardware changes the content of a register
DeviceChange ==
    \E r \in Regs, v \in HwVals :
        /\ polling
        /\ mem' = accessor_write(mem, addr_of(r), v)
        /\ mem' # mem
        /\ History(Call("device", RegArg(r), v, 0, 0), Return(0), <<>>)
        /\ UNCHANGED <<regmap, config, connected, polling, value, timeLastRead, now>>

Next ==
    \/ StaticRegRead
    \/ PolledRead
    \/ ImmediateRegRead
    \/ WriteRegister
    \/ OpenDevice
    \/ Close
    \/ polling_loop
    \/ cleanup
    \/ DeviceChange

Spec == Init /\ [][Next]_vars

\* the handlers that take a Register or an address, called both ways
NextAddr ==
    \/ ImmediateRegRead
    \/ ImmediateRegReadAddr
    \/ WriteRegister
    \/ WriteRegisterAddr
    \/ OpenDevice
    \/ Close
    \/ DeviceChange

SpecAddr == Init /\ [][NextAddr]_vars

\* the bit field handlers over the caches the other handlers fill
NextField ==
    \/ ReadField
    \/ WriteField
    \/ StaticRegRead
    \/ ImmediateRegRead
    \/ WriteRegister
    \/ OpenDevice
    \/ Close
    \/ DeviceChange

SpecField == Init /\ [][NextField]_vars

\* list(self.getReg(path, self.map))
GetReg ==
    LET out == getReg(lookup.path, map)
    IN  /\ lookup.path # <<>>
        /\ ~lookup.done
        /\ lookup' = [path |-> lookup.path, done |-> TRUE,
                      yielded |-> out.yielded, exc |-> out.exc]
        /\ UNCHANGED <<map, policy_overwrites, startup, conversion, transport, config, connected,
                       polling, mem, value, timeLastRead, now, static_fetches,
                       call, ret, log>>

NextMap == GetReg

SpecMap == InitMap /\ [][NextMap]_vars

\* RegisterMap.__init__ from line 89: the policy file merged into the map
ApplyOverwrites ==
    LET out == apply_overwrites(map, policy_overwrites.entries)
    IN  /\ ~policy_overwrites.done
        /\ policy_overwrites.entries # <<>>
        /\ map' = out.map
        /\ policy_overwrites' =
              [policy_overwrites EXCEPT !.done = TRUE, !.exc = out.exc]
        /\ UNCHANGED <<lookup, startup, conversion, transport, config, connected, polling, mem, value,
                       timeLastRead, now, static_fetches, call, ret, log>>

NextMerge == ApplyOverwrites

SpecMerge == InitMerge /\ [][NextMerge]_vars

\* RegisterAccessorController(options) on the files drawn
Start ==
    /\ ~startup.done
    /\ DOMAIN startup # {"done"}
    /\ startup' = init(startup.reg_map, startup.options, startup.overwrites)
    /\ UNCHANGED <<map, lookup, policy_overwrites, conversion, transport, config, connected, polling,
                   mem, value, timeLastRead, now, static_fetches, call, ret, log>>

NextAttach == Start

SpecAttach == InitAttach /\ [][NextAttach]_vars

\* RegisterMap on the XML file
ReadXmlMap ==
    /\ conversion.stage # "none"
    /\ ~conversion.xml_read
    /\ conversion' = [conversion EXCEPT !.xml_read = TRUE,
                                        !.xml_map = read_xml_map(conversion.xml)]
    /\ UNCHANGED <<map, lookup, policy_overwrites, startup, transport, config, connected,
                   polling, mem, value, timeLastRead, now, static_fetches,
                   call, ret, log>>

\* main() of the converter: the JSON document written from the XML file
Convert ==
    /\ conversion.stage = "xml"
    /\ conversion' = [conversion EXCEPT !.stage = "json",
                         !.json = convert_element(conversion.xml,
                                                  conversion.options)]
    /\ UNCHANGED <<map, lookup, policy_overwrites, startup, transport, config, connected,
                   polling, mem, value, timeLastRead, now, static_fetches,
                   call, ret, log>>

\* RegisterMap on the JSON file the converter wrote
ReadJsonMap ==
    /\ conversion.stage = "json"
    /\ conversion' = [conversion EXCEPT !.stage = "loaded",
                         !.json_map = read_json_map(conversion.json)]
    /\ UNCHANGED <<map, lookup, policy_overwrites, startup, transport, config, connected,
                   polling, mem, value, timeLastRead, now, static_fetches,
                   call, ret, log>>

\* either file is loaded, the JSON one once the converter has written it
SpecConvert ==
    /\ InitConvert
    /\ [][\/ ReadXmlMap
          \/ Convert
          \/ ReadJsonMap]_vars

\* the controller is idle while a transport is driven on its own
TransportOnly ==
    UNCHANGED <<map, lookup, policy_overwrites, startup, conversion, config,
                connected, polling, mem, value, timeLastRead, now,
                static_fetches, call, ret, log>>

TransportOpen ==
    /\ transport.class \in TransportClasses
    /\ \E found, ok \in BOOLEAN :
          transport' =
             CASE transport.class = "RegisterAccessor.XDmaAccessor" ->
                     xdma_open(transport, found)
               [] transport.class = "memoryaccessor.XDmaAccessor" ->
                     old_xdma_open(transport, found)
               [] OTHER -> adxdma_open(transport, found, ok)
    /\ TransportOnly

TransportClose ==
    /\ transport.class \in TransportClasses
    /\ \E ok1, ok2 \in BOOLEAN :
          transport' =
             CASE transport.class = "RegisterAccessor.XDmaAccessor" ->
                     xdma_close(transport)
               [] transport.class = "memoryaccessor.XDmaAccessor" ->
                     old_xdma_close(transport)
               [] OTHER -> adxdma_close(transport, ok1, ok2)
    /\ TransportOnly

TransportRead ==
    /\ transport.class \in TransportClasses
    /\ \E addr \in DeviceAddrs, ok \in BOOLEAN :
       \E size \in 1..(Cardinality(DeviceAddrs) - addr) :
          transport' =
             CASE transport.class = "RegisterAccessor.XDmaAccessor" ->
                     xdma_read(transport, addr, size)
               [] transport.class = "memoryaccessor.XDmaAccessor" ->
                     old_xdma_read(transport, addr, size)
               [] OTHER -> adxdma_read(transport, addr, size, ok)
    /\ TransportOnly

TransportWrite ==
    /\ transport.class \in TransportClasses
    /\ \E addr \in DeviceAddrs, byte \in DeviceBytes, ok \in BOOLEAN :
          transport' =
             CASE transport.class = "RegisterAccessor.XDmaAccessor" ->
                     xdma_write(transport, addr, <<byte>>)
               [] transport.class = "memoryaccessor.XDmaAccessor" ->
                     old_xdma_write(transport, addr, <<byte>>)
               [] OTHER -> adxdma_write(transport, addr, <<byte>>, ok)
    /\ TransportOnly

SpecTransport ==
    /\ InitTransport
    /\ [][\/ TransportOpen
          \/ TransportClose
          \/ TransportRead
          \/ TransportWrite]_vars

\* the scheduler over the frequencies of the overwrite file
NextPoll ==
    \/ polling_loop
    \/ PolledRead
    \/ OpenDevice
    \/ Close
    \/ DeviceChange
    \/ cleanup

SpecPoll == InitPoll /\ [][NextPoll]_vars

\* write_field on registers the scheduler refreshes
NextRace ==
    \/ WriteField
    \/ polling_loop
    \/ OpenDevice
    \/ Close
    \/ DeviceChange

SpecRace == Init /\ [][NextRace]_vars

\* every handler that works on a register, and the scheduler
SpecFrame ==
    /\ InitFrame
    /\ [][\/ StaticRegRead
          \/ PolledRead
          \/ ImmediateRegRead
          \/ WriteRegister
          \/ ReadField
          \/ WriteField
          \/ polling_loop
          \/ OpenDevice
          \/ Close
          \/ DeviceChange]_vars

\* the scheduler left to run: the transport is opened and never closed, the
\* fetches of a wake succeed, and the hardware changes the registers; the
\* PeriodicCallback keeps calling polling_loop
SpecSteady ==
    /\ InitSteady
    /\ [][\/ steady_polling_loop
          \/ OpenDevice
          \/ DeviceChange]_vars
    /\ WF_vars(steady_polling_loop)

(***************************************************************************)
(* Claims.                                                                 *)
(***************************************************************************)
ReadOps == {"static_reg_read", "immediate_reg_read", "polled_read"}

\* the register the last call was made on (0: none)
Target == IF call.register.kind = "missing" THEN 0 ELSE resolve(call.register)

\* the content of register r in the device memory
Device(r) == accessor_read(mem, addr_of(r), size_of(r))

\* C1 as stated: a static register that was never written receives at most
\* one transport fetch, over any sequence of static reads, opens, closes and
\* poll ticks.
C1_AtMostOneFetch ==
    \A r \in Regs :
        read_accessor[r] = "static_reg_read" => static_fetches[r] <= 1

C1_StaticStep(r) ==
    (call'.op = "static_reg_read" /\ call'.register = RegArg(r)) =>
        /\ IF Len(value[r]) = 0 /\ connected
           THEN /\ Len(log') = 1
                /\ log'[1].op = "read"
                /\ log'[1].addr = addr_of(r)
                /\ log'[1].size = size_of(r)
                /\ IF log'[1].ok
                   THEN /\ value' = [value EXCEPT ![r] = Device(r)]
                        /\ Len(value'[r]) > 0
                        /\ ret' = Return(from_bytes(Device(r)))
                   ELSE /\ value' = value
                        /\ ret'.exc = "TransportError"
           ELSE /\ log' = <<>>
                /\ value' = value
                /\ ret' = Return(from_bytes(value[r]))
        /\ UNCHANGED <<mem, timeLastRead, connected>>

\* C1 amended: a static read fetches exactly when the cache of the register
\* is empty and the transport is connected, a fetch that succeeds fills the
\* cache, no handler ever empties a cache, and a static read of a filled
\* cache returns its decode without a fetch.
C1_StaticReadFetchesOnlyEmptyCache ==
    [][\A r \in Regs :
          /\ C1_StaticStep(r)
          /\ Len(value[r]) > 0 => Len(value'[r]) > 0]_vars

\* a static read answered from a cache that differs from the device
C1_Witness ==
    \E r \in Regs :
        /\ call.op = "static_reg_read"
        /\ call.register = RegArg(r)
        /\ connected
        /\ log = <<>>
        /\ Len(value[r]) > 0
        /\ value[r] # Device(r)
        /\ ret = Return(from_bytes(value[r]))

C2_ImmediateStep(r) ==
    (/\ call'.op = "immediate_reg_read"
     /\ call'.register = RegArg(r)
     /\ read_accessor[r] = "immediate_reg_read"
     /\ registers[r].read) =>
        /\ IF connected
           THEN /\ Len(log') = 1
                /\ log'[1].op = "read"
                /\ log'[1].addr = addr_of(r)
                /\ log'[1].size = size_of(r)
                /\ IF log'[1].ok
                   THEN /\ value' = [value EXCEPT ![r] = Device(r)]
                        /\ ret' = Return(from_bytes(Device(r)))
                   ELSE /\ value' = value
                        /\ ret'.exc = "TransportError"
           ELSE /\ log' = <<>>
                /\ value' = value
                /\ ret' = Return(from_bytes(value[r]))
        /\ UNCHANGED <<mem, timeLastRead, connected>>

\* C2: a read of a readable immediate register issues exactly one transport
\* fetch when the transport is connected and returns the fetched value; when
\* it is not connected it issues nothing, raises nothing and returns the
\* decode of the cached value (0 for an empty cache).
C2_ImmediateRead == [][\A r \in Regs : C2_ImmediateStep(r)]_vars

\* an immediate read answered from a filled cache while disconnected
C2_Witness ==
    \E r \in Regs :
        /\ call.op = "immediate_reg_read"
        /\ call.register = RegArg(r)
        /\ registers[r].read
        /\ ~connected
        /\ log = <<>>
        /\ ret = Return(1)
        /\ value[r] = <<1, 0, 0, 0>>

\* C3 as stated: a read of a register that is not readable raises the
\* "not readable" error under every policy and issues no transport fetch.
C3_NotReadableRaises ==
    (/\ call.op \in ReadOps
     /\ call.register.kind = "Register"
     /\ ~registers[call.register.r].read) =>
        /\ ret = Raise("ControllerError", "Register not readable")
        /\ log = <<>>

C4_FailedWriteStep(r) ==
    (/\ call'.op = "write_register"
     /\ call'.register.kind # "missing"
     /\ resolve(call'.register) = r
     /\ ~(registers[r].write /\ connected)) =>
        /\ ret' = Raise("ControllerError",
                        IF registers[r].write THEN "Not Connected"
                        ELSE "Register not writeable")
        /\ log' = <<>>
        /\ UNCHANGED <<mem, value, timeLastRead>>

\* C4 as stated: a write to a register that is not writable, or made while the
\* transport is not connected, raises the "not writeable" or the "not
\* connected" error, issues no transport write and leaves every cache and
\* every timeLastRead unchanged; a write succeeds only on a writable register
\* over a connected transport.
C4_FailedWriteRaises ==
    [][/\ \A r \in Regs : C4_FailedWriteStep(r)
       /\ (call'.op = "write_register" /\ ret'.exc = "") =>
            /\ connected
            /\ Target' \in Regs
            /\ registers[Target'].write]_vars

C5_WriteStep(r) ==
    (/\ call'.op = "write_register"
     /\ call'.register = RegArg(r)
     /\ ret'.exc = ""
     /\ registers[r].read) =>
        /\ registers[r].write
        /\ log' = <<WriteOp(addr_of(r), call'.data, TRUE),
                    ReadOp(addr_of(r), size_of(r), TRUE)>>
        /\ mem' = accessor_write(mem, addr_of(r), call'.data)
        /\ value' = [value EXCEPT ![r] = accessor_read(mem', addr_of(r), size_of(r))]

C5_ReadAfterWrite(r) ==
    (/\ call.op = "write_register"
     /\ call.register = RegArg(r)
     /\ ret.exc = ""
     /\ registers[r].read
     /\ call'.op \in ReadOps
     /\ call'.register = RegArg(r)
     /\ ret'.exc = "") =>
        /\ ret'.val = from_bytes(Device(r))
        /\ Len(call.data) = size_of(r) => ret'.val = from_bytes(call.data)

\* C5: a successful write to a register that is writable and readable issues
\* the transport write and then one transport read, and leaves in the cache
\* what the device holds after the write; a read of the register that follows
\* under any policy returns the decode of that content, which is the written
\* value when the write covered the register.
C5_WriteThenReread ==
    [][\A r \in Regs : C5_WriteStep(r) /\ C5_ReadAfterWrite(r)]_vars

\* a write that covered the register, found in the cache after the re-read
C5_Witness ==
    \E r \in Regs :
        /\ call.op = "write_register"
        /\ call.register = RegArg(r)
        /\ ret.exc = ""
        /\ registers[r].read
        /\ Len(log) = 2
        /\ call.data = <<1, 0, 0, 0>>
        /\ value[r] = call.data
        /\ Device(r) = call.data

\* C6 as stated: after a successful write to a register that is writable but
\* not readable the cache of the register holds the bytes that were written.
C6_WriteOnlyCacheHoldsWritten ==
    \A r \in Regs :
        (/\ call.op = "write_register"
         /\ call.register = RegArg(r)
         /\ ret.exc = ""
         /\ registers[r].write
         /\ ~registers[r].read) => value[r] = call.data

RECURSIVE TrailingZeroCount(_)
\* the number of zero bits below the lowest set bit of a non-zero mask
TrailingZeroCount(m) == IF m % 2 = 1 THEN 0 ELSE 1 + TrailingZeroCount(m \div 2)

RECURSIVE SelectBits(_, _)
\* the bits of a that mask selects, in place
SelectBits(a, mask) ==
    IF mask = 0 THEN 0
    ELSE (a % 2) * (mask % 2) + 2 * SelectBits(a \div 2, mask \div 2)

RECURSIVE FieldOf(_, _)
\* the bits of a that a non-zero mask selects, moved down to bit 0
FieldOf(a, mask) ==
    IF mask % 2 = 1 THEN SelectBits(a, mask) ELSE FieldOf(a \div 2, mask \div 2)

RECURSIVE OutsideBits(_, _)
\* the bits of a that mask does not select, in place
OutsideBits(a, mask) ==
    IF a = 0 THEN 0
    ELSE (a % 2) * (1 - (mask % 2)) + 2 * OutsideBits(a \div 2, mask \div 2)

\* a with the field that mask selects replaced by f
Merged(a, f, mask) ==
    OutsideBits(a, mask) + SelectBits(f * Pow2(TrailingZeroCount(mask)), mask)

\* f fits the bit width of the field
Fits(f, mask) == FieldOf(SelectBits(f * Pow2(TrailingZeroCount(mask)), mask), mask) = f

C7_FieldStep(r) ==
    (/\ call'.op = "write_field"
     /\ call'.register = RegArg(r)
     /\ registers[r].write
     /\ registers[r].read
     /\ connected
     /\ Fits(call'.arg, call'.mask)) =>
        /\ ret'.exc = ""
        /\ FieldOf(from_bytes(value'[r]), call'.mask) = call'.arg
        /\ OutsideBits(from_bytes(value'[r]), call'.mask)
              = OutsideBits(from_bytes(value[r]), call'.mask)

\* C7 as stated: write_field(f) on a writable, readable register over a
\* connected transport, with f fitting the field, returns normally, a
\* read_field of the field then gives f, and the bits of the register outside
\* the mask are what they were.
C7_WriteFieldThenReadField == [][\A r \in Regs : C7_FieldStep(r)]_vars

C8_FieldStep(r) ==
    (/\ call'.op = "write_field"
     /\ call'.register = RegArg(r)
     /\ registers[r].write
     /\ connected) =>
        /\ Len(log') >= 1
        /\ log'[1].op = "write"
        /\ log'[1].addr = addr_of(r)
        /\ from_bytes(log'[1].data)
              = Merged(from_bytes(value[r]), call'.arg, call'.mask)
        /\ \A i \in 2..Len(log') : log'[i].op # "write"

\* C8 as stated: write_field on a writable register over a connected
\* transport issues no transport read first and exactly one transport write,
\* addressed to the register and carrying the cached value with the field
\* replaced.
C8_WriteFieldWritesMerged == [][\A r \in Regs : C8_FieldStep(r)]_vars

C9_FieldStep(r) ==
    (call'.op = "read_field" /\ call'.register = RegArg(r)) =>
        /\ get_bitwise_trailing_zeros(call'.mask) = TrailingZeroCount(call'.mask)
        /\ ret' = Return(FieldOf(from_bytes(value[r]), call'.mask))
        /\ Len(value[r]) = 0 => ret'.val = 0
        /\ log' = <<>>
        /\ UNCHANGED <<config, connected, polling, mem, value, timeLastRead, now>>

\* C9: read_field returns the bits of the decoded cache that the mask
\* selects, moved down by the number of trailing zero bits of the mask, which
\* is what the helper computes; it returns 0 for an empty cache, issues no
\* transport operation and changes no state.
C9_ReadField == [][\A r \in Regs : C9_FieldStep(r)]_vars

\* a field above bit 0 read from a filled cache
C9_Witness ==
    \E r \in Regs :
        /\ call.op = "read_field"
        /\ call.register = RegArg(r)
        /\ call.mask = 240
        /\ value[r] = <<255, 255, 255, 127>>
        /\ ret = Return(15)

\* C10 as stated: every transport write issued for a register carries
\* exactly as many bytes as the register is wide.
C10_WritesCarrySizeBytes ==
    \A i \in 1..Len(log) :
        log[i].op = "write" =>
            \E r \in Regs : log[i].addr = addr_of(r) /\ log[i].size = size_of(r)

\* the registers entered in polled_registers
Polled == DOMAIN polled_registers

\* C11 as stated: the interval a polled register is entered with is never
\* below 100 ms, a lower request having been raised to 100 ms.
C11_IntervalFloor == \A r \in Polled : polled_registers[r] >= 100

\* the interval of a polled register with the floor of 100 ms applied
Effective(r) == IF polled_registers[r] < 100 THEN 100 ELSE polled_registers[r]

\* g is the greatest common divisor of the numbers in S
IsGcd(g, S) ==
    /\ g > 0
    /\ \A x \in S : x % g = 0
    /\ \A x \in S : \A d \in (g + 1)..x : \E y \in S : y % d # 0

\* C12 as stated: the callback time of the scheduler is the greatest common
\* divisor of the effective intervals of the polled registers.
C12_TickIsGcdOfEffective ==
    Polled # {} => IsGcd(poll_freq, {Effective(r) : r \in Polled})

\* C13 as stated: with no polled register construction ends without an error
\* and the scheduler is not running.
C13_NoPolledStartsClean ==
    (Polled = {} /\ call.op = "init") => (ret.exc = "" /\ ~polling)

C14_TickStep(r) ==
    (/\ call'.op = "polling_loop"
     /\ connected
     /\ ret'.exc = ""
     /\ r \in Polled) =>
        IF now' >= timeLastRead[r] + polled_registers[r]
        THEN /\ ReadsOf(log', r) = 1
             /\ value'[r] = Device(r)
             /\ timeLastRead'[r] = now'
        ELSE /\ ReadsOf(log', r) = 0
             /\ value'[r] = value[r]
             /\ timeLastRead'[r] = timeLastRead[r]

\* C14 as stated: a wake over a connected transport fetches every polled
\* register whose interval has elapsed, the wake that falls exactly on the
\* interval included, and stores the fetched value and the time of the wake;
\* a polled register that is not due is neither fetched nor changed.
C14_DueRegistersFetched == [][\A r \in Regs : C14_TickStep(r)]_vars

\* C15 as stated: when a fetch fails during a wake, every polled register
\* that was due at that wake is still fetched and the scheduler stays on.
C15_TickSurvivesFailure ==
    [][(/\ call'.op = "polling_loop"
        /\ \E i \in 1..Len(log') : ~log'[i].ok) =>
            /\ polling'
            /\ \A r \in Polled :
                 timeLastRead[r] + polled_registers[r] < now' =>
                     ReadsOf(log', r) >= 1]_vars

\* C16: cleanup stops the scheduler first and closes the transport after it,
\* and only if it was connected; it fetches nothing; a wake runs only while
\* the scheduler is on, so none runs after cleanup, and a wake fetches only
\* over a connected transport.
C16_StopBeforeClose ==
    [][/\ call'.op = "cleanup" =>
            /\ log'[1].op = "stop"
            /\ Len(log') = (IF connected THEN 2 ELSE 1)
            /\ connected => log'[2].op = "close"
            /\ ~polling'
            /\ ~connected'
            /\ UNCHANGED <<mem, value, timeLastRead>>
       /\ call'.op = "polling_loop" =>
            /\ polling
            /\ Len(log') > 0 => connected
       /\ ~polling => ~polling']_vars

\* cleanup of a controller whose transport was open
C16_Witness ==
    /\ call.op = "cleanup"
    /\ Len(log) = 2
    /\ log[1].op = "stop"
    /\ log[2].op = "close"
    /\ ~polling
    /\ ~connected
    /\ \E r \in Polled : timeLastRead[r] > 0

RECURSIVE At(_, _)
\* the node that the keys of p lead to from node n, if they lead to one
At(p, n) ==
    IF p = <<>> THEN n
    ELSE IF n.kind = "dict" /\ Head(p) \in DOMAIN n.items
    THEN At(Tail(p), n.items[Head(p)])
    ELSE [kind |-> "none"]

\* C18 as stated: a path with a separator yields the register it ends on and
\* nothing else, and fails, yielding nothing, when it ends on no register; a
\* trailing "/" makes no difference.
C18_ExactPathYieldsOne ==
    (lookup.done /\ Len(lookup.path) > 1) =>
        LET target == At(DropTrailing(lookup.path), map)
        IN  IF target.kind = "Register"
            THEN lookup.exc = "" /\ lookup.yielded = <<target.addr>>
            ELSE lookup.exc # "" /\ lookup.yielded = <<>>

\* C19 as stated: a path with a separator fails and yields nothing when one
\* of its segments is no key of the namespace reached, or when a segment
\* before the last is a register.
C19_InvalidPathFails ==
    (/\ lookup.done
     /\ Len(lookup.path) > 1
     /\ At(DropTrailing(lookup.path), map).kind = "none") =>
        lookup.exc = "RegisterMapError" /\ lookup.yielded = <<>>

\* the key paths of the tree that end on a register called name
RegisterPaths(name) ==
    {p \in Paths : p[Len(p)] = name /\ At(p, map).kind = "Register"}

\* C20: a bare name yields the registers of that name at every depth of the
\* tree, each once, and no other register, and does not fail.
C20_BareNameYieldsAll ==
    (lookup.done /\ Len(lookup.path) = 1) =>
        /\ lookup.exc = ""
        /\ {lookup.yielded[i] : i \in 1..Len(lookup.yielded)}
              = {At(p, map).addr : p \in RegisterPaths(lookup.path[1])}
        /\ \A i, j \in 1..Len(lookup.yielded) :
              lookup.yielded[i] = lookup.yielded[j] => i = j

\* "status" found at the top of one map and in three of its sub-trees
C20_Witness ==
    /\ lookup.done
    /\ lookup.path = <<"status">>
    /\ lookup.yielded = <<0, 8, 12, 16>>
    /\ lookup.exc = ""

\* two register nodes of the map carry the same address
DuplicateAddress(reg_map) ==
    \E i, j \in 1..Len(reg_map) :
        i # j /\ reg_map[i].absolute_offset = reg_map[j].absolute_offset

\* C21 as stated: a map in which two registers carry the same address is
\* refused with an error when it is loaded; a load that ends without an error
\* has entered every register of the map, each under an address of its own.
C21_DuplicateAddressRejected ==
    startup.done =>
        /\ DuplicateAddress(startup.reg_map) => startup.exc # ""
        /\ startup.exc = "" =>
              /\ Cardinality(DOMAIN startup.registers) = Len(startup.reg_map)
              /\ \A i, j \in 1..Len(startup.tree) :
                    startup.tree[i].address = startup.tree[j].address => i = j

\* the key paths of the tree m that end on a register
AllRegisterPaths(m) == {p \in Paths : At(p, m).kind = "Register"}

\* the key of an overwrite entry matches the register at path p: a bare name
\* every register of that name, a path the register it leads to
Matches(regName, p) ==
    IF Len(regName) = 1 THEN regName[1] = p[Len(p)]
    ELSE DropTrailing(regName) = p

\* what the entries that match the register at p give for a key
Given(entries, p, key) ==
    {entries[i].policy[key] :
        i \in {j \in 1..Len(entries) :
                 Matches(entries[j].regName, p) /\ key \in entries[j].policy.keys}}

\* the register at p holds what the entries that match it give, and what
\* the map document gave where no entry that matches it has the key
Merged_at(p) ==
    LET before == At(p, policy_overwrites.read)
        after == At(p, map)
        policies == Given(policy_overwrites.entries, p, "policy")
        frequencies == Given(policy_overwrites.entries, p, "frequency")
    IN  /\ IF policies = {} THEN after.policy = before.policy
           ELSE after.policy \in policies
        /\ IF frequencies = {} THEN after.poll_freq = before.poll_freq
           ELSE after.poll_freq \in frequencies

\* C22 as stated: after a load that merged the policy file, every register
\* that the key of an entry matches has its policy replaced exactly when the
\* entry has the key "policy" and its interval exactly when the entry has the
\* key "frequency", and a register that no entry matches keeps both from the
\* map document.
C22_OverwritesReplaceMatched ==
    (policy_overwrites.done /\ policy_overwrites.exc = "") =>
        \A p \in AllRegisterPaths(map) : Merged_at(p)

\* C23 as stated: a key of the policy file that matches no register, be it a
\* bare name or a path, does not end the load: the load completes and every
\* other entry is applied.
C23_UnmatchedKeyNotFatal ==
    policy_overwrites.done =>
        /\ policy_overwrites.exc = ""
        /\ \A i \in 1..Len(policy_overwrites.entries) :
              \A p \in AllRegisterPaths(map) :
                 Matches(policy_overwrites.entries[i].regName, p) => Merged_at(p)

\* the policy strings of the files that name a policy, in any case
StaticPolicies == {"static", "once", "STATIC"}
ImmediatePolicies == {"immediate", "direct", "Immediate"}
PolledPolicies == {"polled", "looped", "Polled", "LOOPED"}
KnownPolicies == StaticPolicies \cup ImmediatePolicies \cup PolledPolicies

\* the entry of the overwrite file used for node i, and the policy string
\* node i is attached with
EntryUsed(i) ==
    reg_policy(parseRegisterElement(startup.reg_map[i]), startup.overwrites)
PolicyGiven(i) ==
    dict_get(EntryUsed(i).kwargs, "policy", startup.options.access_policy)

\* node i can be attached
Attachable(i) == ~EntryUsed(i).none /\ PolicyGiven(i) \in KnownPolicies

\* the polled registers that the nodes before node i enter
PolledBefore(i) ==
    {startup.reg_map[j].absolute_offset :
        j \in {k \in 1..(i - 1) : PolicyGiven(k) \in PolledPolicies}}

\* C24: the first register whose policy string is, in whatever case, none of
\* static/once, immediate/direct, polled/looped ends startup with the
\* "Access Policy not recognised" error and is not entered among the polled
\* registers; a register whose policy string is one of them is attached
\* with the accessor of that policy, and never raises that error.
C24_UnknownPolicyFatal ==
    startup.done =>
        /\ \A i \in 1..Len(startup.reg_map) :
              (\A j \in 1..(i - 1) : Attachable(j)) =>
                 IF EntryUsed(i).none THEN startup.exc # "ControllerError"
                 ELSE IF PolicyGiven(i) \in KnownPolicies
                 THEN /\ Len(startup.tree) >= i
                      /\ startup.tree[i].getter =
                            (IF PolicyGiven(i) \in PolledPolicies THEN "polled"
                             ELSE IF PolicyGiven(i) \in ImmediatePolicies
                             THEN "immediate_reg_read" ELSE "static_reg_read")
                 ELSE /\ startup.exc = "ControllerError"
                      /\ Len(startup.tree) = i - 1
                      /\ DOMAIN startup.polled_registers = PolledBefore(i)
        /\ startup.exc = "ControllerError" =>
              \E i \in 1..Len(startup.reg_map) : ~Attachable(i)

\* startup ended at the second register, whose entry names the policy
\* "Cached", after the first was entered as polled
C24_Witness ==
    /\ startup.done
    /\ startup.exc = "ControllerError"
    /\ Len(startup.tree) = 1
    /\ PolicyGiven(2) = "Cached"
    /\ DOMAIN startup.polled_registers = {0}
    /\ startup.reg_map[2].absolute_offset = WordBytes

\* the accessor a policy string stands for
AccessorOf(policy) ==
    IF policy \in PolledPolicies THEN "polled"
    ELSE IF policy \in ImmediatePolicies THEN "immediate_reg_read"
    ELSE "static_reg_read"

\* what the overwrite entries under the name or the full path of node i set
\* for a key: the register's own policy or interval
Own(i, key) ==
    LET reg == parseRegisterElement(startup.reg_map[i])
    IN  {startup.overwrites[k][key] :
            k \in {x \in DOMAIN startup.overwrites :
                     /\ x \in {<<reg.name>>, reg.fullPath}
                     /\ key \in startup.overwrites[x].keys}}

\* the policies and the intervals node i may be attached with: its own where
\* set, the global default otherwise
EffectivePolicies(i) ==
    IF Own(i, "policy") = {} THEN {startup.options.access_policy}
    ELSE Own(i, "policy")
EffectiveIntervals(i) ==
    IF Own(i, "frequency") = {} THEN {startup.options.poll_rate}
    ELSE Own(i, "frequency")

\* C25 as stated: a register is attached with its own policy if one is set
\* for it, with the global default otherwise, and, when polled, with its own
\* interval if one is set, with the global poll rate otherwise.
C25_OwnPolicyElseDefault ==
    startup.done =>
        \A i \in 1..Len(startup.reg_map) :
            (\A j \in 1..i : EffectivePolicies(j) \subseteq KnownPolicies) =>
                /\ Len(startup.tree) >= i
                /\ startup.tree[i].getter \in
                      {AccessorOf(policy) : policy \in EffectivePolicies(i)}
                /\ (/\ startup.tree[i].getter = "polled"
                    /\ Len(startup.tree) = Len(startup.reg_map)
                    /\ ~DuplicateAddress(startup.reg_map)) =>
                        startup.polled_registers[startup.tree[i].address]
                            \in EffectiveIntervals(i)

RECURSIVE BitLength(_)
\* the number of bits up to the highest set bit of m
BitLength(m) == IF m = 0 THEN 0 ELSE 1 + BitLength(m \div 2)

\* C30 as stated: a map with a bit field whose mask is zero is refused when
\* it is loaded; every bit field of a loaded map has a mask that is not zero
\* and whose set bits lie within the size of its register in bits; and no
\* shift amount is ever computed for a zero mask.
C30_MasksNonZeroWithinRegister ==
    startup.done =>
        /\ (\E i \in 1..Len(startup.reg_map) :
               \E f \in startup.reg_map[i].fields : f.mask = 0) =>
                  startup.exc # ""
        /\ startup.exc = "" =>
              \A a \in DOMAIN startup.registers :
                 \A bit \in startup.registers[a].bitFields :
                    /\ bit.mask # 0
                    /\ BitLength(bit.mask) <= 8 * startup.registers[a].size
        /\ \A i \in 1..Len(startup.tree) :
              \A f \in startup.tree[i].fields : f.mask # 0

C26_PolledStep(r) ==
    (call'.op = "polled_read" /\ call'.register = RegArg(r)) =>
        /\ read_accessor[r] = "polled"
        /\ ret' = Return(from_bytes(value[r]))
        /\ log' = <<>>
        /\ UNCHANGED <<config, connected, polling, mem, value, timeLastRead, now>>

\* C26: a read of a register bound with the polled policy returns the decode
\* of the cache as it is, issues no transport operation whether the
\* transport is connected or not, and changes no state of any register.
C26_PolledReadFromCache == [][\A r \in Regs : C26_PolledStep(r)]_vars

\* a polled read over a connected transport answered from a cache that the
\* device has moved away from
C26_Witness ==
    \E r \in Regs :
        /\ call.op = "polled_read"
        /\ call.register = RegArg(r)
        /\ connected
        /\ log = <<>>
        /\ Len(value[r]) > 0
        /\ value[r] # Device(r)
        /\ ret = Return(from_bytes(value[r]))

\* a transport read of register r that completed is in the log l
FetchedIn(l, r) ==
    \E i \in 1..Len(l) : l[i] = ReadOp(addr_of(r), size_of(r), TRUE)

C28_OnlyWriteImmediateTick ==
    [][(value' # value \/ timeLastRead' # timeLastRead) =>
          call'.op \in {"write_register", "immediate_reg_read", "polling_loop"}]_vars

C28_CacheStep(r) ==
    /\ value'[r] # value[r] =>
          /\ connected'
          /\ \/ /\ call'.op = "write_register"
                /\ Target' = r
                /\ registers[r].read
             \/ /\ call'.op = "immediate_reg_read"
                /\ Target' = r
             \/ /\ call'.op = "static_reg_read"
                /\ Target' = r
                /\ Len(value[r]) = 0
             \/ /\ call'.op = "open_device"
                /\ read_on_open
             \/ /\ call'.op = "polling_loop"
                /\ r \in Polled
    /\ timeLastRead'[r] # timeLastRead[r] =>
          /\ call'.op = "polling_loop"
          /\ r \in Polled
          /\ connected
          /\ timeLastRead'[r] = now'

\* C28 amended: the cache of a register changes only over a connected
\* transport, in a write to it when it is readable, in an immediate read of
\* it, in a static read of it that finds the cache empty, in open_device
\* when read_on_open is set, and in a wake of the scheduler when it is
\* polled; timeLastRead changes only in such a wake.  A polled read, a static
\* read of a filled cache, close, cleanup and a change in the device change
\* neither.
C28_CacheWriters ==
    [][/\ \A r \in Regs : C28_CacheStep(r)
       /\ call'.op \in {"polled_read", "close", "cleanup", "device"} =>
             UNCHANGED <<value, timeLastRead>>]_vars

\* open_device with read_on_open set filled the caches of all registers, a
\* static one among them, and left every timeLastRead at its start
C28_Witness ==
    /\ call.op = "open_device"
    /\ read_on_open
    /\ ret.exc = ""
    /\ Len(log) = Cardinality(Regs)
    /\ \A r \in Regs : Len(value[r]) > 0 /\ timeLastRead[r] = 0
    /\ \E r \in Regs : read_accessor[r] = "static_reg_read"

\* C29: what the attach step of __init__ resolved stays as it is under every
\* read, write, wake of the scheduler, open, close and cleanup: the accessor
\* bound to each register, the polled registers and their intervals, and the
\* callback time of the scheduler, which stays the greatest common divisor
\* of those intervals.
C29_AttachIsFinal ==
    [][/\ UNCHANGED <<registers, read_accessor, polled_registers, poll_freq>>
       /\ poll_freq' = GcdAll({polled_registers'[r] : r \in DOMAIN polled_registers'})]_vars

\* a wake of the scheduler has refreshed a polled register after an immediate
\* read had filled the cache of another
C29_Witness ==
    \E r, q \in Regs :
        /\ call.op = "polling_loop"
        /\ r \in Polled
        /\ timeLastRead[r] = now
        /\ poll_freq = polled_registers[r]
        /\ read_accessor[q] = "immediate_reg_read"
        /\ Len(value[q]) > 0

\* a value as Python prints it, by which a number and a string differ
Repr(v) == ToString(v)

\* the trees x and j have the same shape, and every register of j carries the
\* address, the size in bytes and the masks of its twin in x, as the integers
\* they are in x
RECURSIVE SameModel(_, _)
SameModel(x, j) ==
    /\ x.kind = j.kind
    /\ IF x.kind = "dict"
       THEN /\ DOMAIN x.items = DOMAIN j.items
            /\ \A k \in DOMAIN x.items : SameModel(x.items[k], j.items[k])
       ELSE /\ Repr(j.addr) = Repr(x.addr)
            /\ Repr(j.size) = Repr(x.size)
            /\ Len(j.bitFields) = Len(x.bitFields)
            /\ \A i \in 1..Len(x.bitFields) :
                  /\ j.bitFields[i].name = x.bitFields[i].name
                  /\ Repr(j.bitFields[i].mask) = Repr(x.bitFields[i].mask)

\* C31 as stated: the XML map loaded directly and the JSON document the
\* converter writes from it, loaded in turn, give the same tree with, for
\* every register, the same integer address, the same size in bytes (words
\* times 4, 4 by default) and the same bit field masks.
C31_EncodingsEquivalent ==
    (conversion.stage = "loaded" /\ conversion.xml_read) =>
        SameModel(conversion.xml_map, conversion.json_map)

TransportErrors == {"XdmaException", "AdxdmaException"}

\* C36 as stated: for every transport, once close() has returned the
\* transport reports not connected; a read or write attempted while it reports
\* not connected raises a transport error and leaves the device memory as it
\* was; close() on a transport that is already closed changes nothing and
\* raises nothing.
C36_ClosedTransportRefuses ==
    [][/\ (transport'.call.op = "close" /\ transport'.exc = "") =>
              ~transport'.isConnected
       /\ (transport'.call.op \in {"read", "write"} /\ ~transport.isConnected) =>
              /\ transport'.exc \in TransportErrors
              /\ transport'.device = transport.device
       /\ (transport'.call.op = "close" /\ ~transport.isConnected) =>
              /\ transport'.exc = ""
              /\ transport'.isConnected = transport.isConnected
              /\ transport'.handle = transport.handle
              /\ transport'.device = transport.device]_vars

\* C37 as stated: write_register and immediate_reg_read called with an
\* integer address report every failure as a ControllerError and nothing else:
\* an address that is not in the map, a known register that is not writable
\* (not readable, for the read), and a known writable register while the
\* transport is disconnected.
C37_AddressFailuresAreControllerErrors ==
    [][(/\ call'.op \in {"write_register", "immediate_reg_read"}
        /\ call'.register.kind = "int") =>
          LET r == resolve(call'.register)
          IN  /\ r = 0 => ret'.exc = "ControllerError"
              /\ (r # 0 /\ call'.op = "immediate_reg_read" /\ ~registers[r].read)
                    => ret'.exc = "ControllerError"
              /\ (r # 0 /\ call'.op = "write_register" /\ ~registers[r].write)
                    => ret'.exc = "ControllerError"
              /\ (r # 0 /\ call'.op = "write_register" /\ registers[r].write
                    /\ ~connected)
                    => ret'.exc = "ControllerError"]_vars

\* the cache of every register is filled
AllCached == \A r \in Regs : Len(value[r]) > 0

\* C38: an open_device that returns with read_on_open set has fetched every
\* register of the map once, whatever its policy or permission, and stored
\* what it fetched as its cache; from then on every cache stays filled and a
\* static read issues no transport fetch; with read_on_open not set, or when
\* the open leaves the transport disconnected, open_device changes no cache.
C38_OpenFillsEveryCache ==
    [][/\ (call'.op = "open_device" /\ ret'.exc = "" /\ read_on_open) =>
              /\ connected'
              /\ AllCached'
              /\ \A r \in Regs :
                    /\ ReadsOf(log', r) = 1
                    /\ value'[r] = Device(r)
       /\ (call'.op = "open_device" /\ (~read_on_open \/ ~connected')) =>
              /\ value' = value
              /\ log' = <<>>
       /\ AllCached => AllCached'
       /\ (call'.op = "static_reg_read" /\ AllCached) => log' = <<>>]_vars

\* an open_device with read_on_open set has returned: both registers were
\* fetched, one of them write-only, and each cache holds what the device has
C38_Witness ==
    /\ call.op = "open_device"
    /\ ret.exc = ""
    /\ connected
    /\ read_on_open
    /\ Len(log) = Cardinality(Regs)
    /\ \E r \in Regs : ~registers[r].read /\ registers[r].write
    /\ \A r \in Regs : Len(value[r]) > 0 /\ value[r] = Device(r)
    /\ \E r \in Regs : from_bytes(value[r]) # 0

\* the handlers a caller invokes on one register
RegisterOps ==
    {"static_reg_read", "polled_read", "immediate_reg_read", "write_register",
     "read_field", "write_field"}

\* the cache and the time of the last read of register r are left alone
Untouched(r) == value'[r] = value[r] /\ timeLastRead'[r] = timeLastRead[r]

\* C35: a read, a write, a field read or a field write on a register leaves
\* the cache and timeLastRead of every other register as they were; a wake of
\* the scheduler changes only registers it fetched in that wake, and never a
\* register that is not in polled_registers.
C35_RegistersIndependent ==
    [][/\ call'.op \in RegisterOps =>
              \A r \in Regs :
                  call'.register # RegArg(r) => Untouched(r)
       /\ call'.op = "polling_loop" =>
              \A r \in Regs :
                  (r \notin Polled \/ ReadsOf(log', r) = 0) => Untouched(r)]_vars

\* a wake has refreshed the polled register while the cache of the other
\* register, filled earlier and stale by now, was left as it was
C35_Witness ==
    /\ call.op = "polling_loop"
    /\ connected
    /\ Polled = {2}
    /\ ReadsOf(log, 2) = 1
    /\ ReadsOf(log, 1) = 0
    /\ value[2] = Device(2)
    /\ timeLastRead[2] = now
    /\ Len(value[1]) > 0
    /\ value[1] # Device(1)
    /\ timeLastRead[1] = 0

\* C34 as stated: a wake that finds the transport not connected issues no
\* transport operation and leaves the cache and timeLastRead of every register
\* unchanged; so at the first wake after the transport is opened again every
\* polled register that is due, its interval having elapsed since it was last
\* read, is fetched.
C34_DisconnectedWakeIdle ==
    [][/\ (call'.op = "polling_loop" /\ ~connected) =>
              /\ log' = <<>>
              /\ UNCHANGED <<mem, value, timeLastRead>>
       /\ (/\ call.op = "open_device"
           /\ call'.op = "polling_loop"
           /\ connected
           /\ ret'.exc = "") =>
              \A r \in Polled :
                  now' >= timeLastRead[r] + Effective(r) =>
                      /\ ReadsOf(log', r) = 1
                      /\ timeLastRead'[r] = now']_vars

\* the part of C34 about the wake itself: without a connection a wake issues
\* nothing and changes no register
C34_DisconnectedWakeFrame ==
    [][(call'.op = "polling_loop" /\ ~connected) =>
              /\ log' = <<>>
              /\ ret'.exc = ""
              /\ UNCHANGED <<mem, value, timeLastRead>>]_vars

\* register r is fetched by the wake of this step, the scheduler having
\* fetched it before
FetchedAgain(r) ==
    /\ call'.op = "polling_loop"
    /\ r \in Polled
    /\ ReadsOf(log', r) >= 1
    /\ timeLastRead[r] > 0

\* C32 as stated: two consecutive fetches of a polled register by the
\* scheduler are at least its effective interval apart, whatever the base tick
\* and the intervals of the other registers.
C32_NeverOverPolls ==
    [][\A r \in Regs :
          FetchedAgain(r) => now' - timeLastRead[r] >= Effective(r)]_vars

\* the time of the k-th wake, 0 for a register never fetched
WakeTime(k) == IF k = 0 THEN 0 ELSE StartTime + k * poll_freq

\* the wakes the model follows leave room for another fetch of register r
RoomFor(r) ==
    /\ now + poll_freq <= StartTime + MaxWakes * poll_freq
    /\ timeLastRead[r] + polled_registers[r] + poll_freq
          <= StartTime + MaxWakes * poll_freq

\* over a connected transport whose fetches succeed, a polled register that
\* was last refreshed at some wake is refreshed again later
C33_RefreshedAgain ==
    \A r \in Regs, k \in 0..MaxWakes :
        (connected /\ r \in Polled /\ timeLastRead[r] = WakeTime(k) /\ RoomFor(r))
            ~> (timeLastRead[r] > WakeTime(k))

\* C33 as stated: while the transport stays connected, the fetches succeed
\* and the scheduler keeps waking at the base tick, every polled register is
\* refreshed again and again, and a register with interval I is refreshed
\* every I ms, not at a longer period.
C33_SteadyRefresh ==
    /\ C33_RefreshedAgain
    /\ [][\A r \in Regs :
             (FetchedAgain(r) /\ connected) =>
                 now' - timeLastRead[r] = polled_registers[r]]_vars

====
